---------------------------- MODULE Spec2Model ----------------------------
(***************************************************************************)
(* The positional inverted index of rir (src/ircore/index/pl.rs) and the   *)
(* positional primitives and phrase matcher built on it                   *)
(* (src/ircore/ranking/ps.rs), the dictionary                             *)
(* (src/ircore/dictionary.rs), the ranked scorers (src/ircore/ranking) and *)
(* the engine facade with its persistence (src/ircore/engine.rs).         *)
(*                                                                         *)
(* Option<T> is modelled as a sequence of at most one element:            *)
(* None == <<>>, Some(x) == <<x>>.  A call's outcome is a record          *)
(* [kind |-> "ok" | "panic", val |-> ...].                                 *)
(***************************************************************************)
EXTENDS Integers, Sequences, FiniteSets, TLC

(* ------------------------------ bounds -------------------------------- *)
\* number of distinct term ids that documents and phrases draw from
NumTerms == 2
\* tokens in the whole corpus (the cap on total_document_length)
MaxTokens == 6
\* documents added in the index-only specification SpecIndex
MaxDocs == 3
\* documents added in the specification with queries, Spec
MaxQueryDocs == 2
\* longest phrase handed to next_phrase / all_phrase
MaxPhraseLen == 3
\* distinct non-empty words callers hand to the dictionary
NumWords == 2
\* longest word list handed to generate_ids
MaxWordListLen == 2
\* documents the engine ingests in SpecEngine
MaxEngineDocs == 2
\* raw tokens of a document's content or of a query string
MaxTextLen == 2
\* documents in the index the scorers run against in SpecScore
MaxScoreDocs == 3
\* tokens of all documents of that index together
MaxScoreTokens == 5
\* longest term-id list handed to a scorer
MaxQueryLen == 2
\* ids a SparseVector of its own is set and read at
NumVecIds == 3
\* documents of the index whose TF-IDF matrix is materialised in SpecMatrix
MaxMatrixDocs == 2
\* tokens of all documents of that index together
MaxMatrixTokens == 3
\* compute_tf_idf calls in SpecMatrix
MaxComputeRuns == 2
\* largest position inserted into the prototype InvertedIndex
MaxPosition == 4

\* The largest TermOffset.  TermOffset is u32; the model checker's integers stop
\* at 2^31 - 1, so the type is scaled to 31 bits.  The code only compares this
\* value with stored positions (all at most MaxTokens), never adds to it.
TermOffsetMax == 2147483647

Terms == 1..NumTerms

\* all token lists of length 0..n over Terms
SeqsUpTo(n) == UNION {[1..k -> Terms] : k \in 0..n}

None == <<>>
Some(x) == <<x>>

Ok(v) == [kind |-> "ok", val |-> v]
Panic == [kind |-> "panic", val |-> <<>>]

VARIABLES
    \* ---- struct PositionList ----
    postings_lists,          \* TermId -> sequence of Posting
    next_doc_id,
    document_frequency,      \* TermId -> u32
    term_frequency,          \* <<TermId, DocId>> -> u32
    document_length,         \* sequence, entry d is document d's length
    total_document_length,
    average_document_length, \* the quotient, kept as <<numerator, denominator>>
    document_count,
    doc_terms,               \* DocId -> set of TermId
    \* ---- the callers' side ----
    corpus,                  \* the term_ids argument of every add_document call, in call order
    returned,                \* the DocId every add_document call returned, in call order
    \* ---- one query call and its binary search ----
    call,                    \* the call in progress or last finished
    pc,                      \* "idle" | "search" (inside binary_search) | "done"
    low_index,
    high_index,
    mid,                     \* the indices positions[mid] was read at, in order
    result,                  \* outcome of the last finished call
    \* ---- struct Analyzer ----
    dict,                    \* struct Dictionary: [term_ids, terms, next_id]
    added,                   \* the distinct words handed to add, in the order first handed
    \* ---- struct Engine and its directory on disk ----
    doc_meta,                \* DocId -> path
    disk,                    \* the three artifacts of the index directory, None when absent
    answers,                 \* what the engine that was saved answers to every query
    \* ---- a SparseVector of its own ----
    sv,                      \* TermId -> f32
    \* ---- the PositionList of index.rs: its materialised TF-IDF matrix ----
    tf_idf_matrix,           \* Vec<SparseVector>, entry i + 1 is tf_idf_matrix[i]
    computed,                \* document_count at every compute_tf_idf call, in call order
    \* ---- struct InvertedIndex of ircore.rs ----
    inverted                 \* its field dict: term -> Vec<u32> of positions

index_vars == <<postings_lists, next_doc_id, document_frequency, term_frequency,
                document_length, total_document_length, average_document_length,
                document_count, doc_terms, corpus, returned>>
query_vars == <<call, pc, low_index, high_index, mid, result>>
facade_vars == <<dict, added, doc_meta, disk, answers>>
other_vars == <<sv, tf_idf_matrix, computed, inverted>>
vars == <<index_vars, query_vars, facade_vars, other_vars>>

NoCall == [op |-> "none", doc |-> 0, term |-> 0, pos |-> 0, phrase |-> <<>>]

(* --------------------------- PositionList ----------------------------- *)

\* extend or overwrite one key of a map
Put(m, k, v) == [x \in DOMAIN m \cup {k} |-> IF x = k THEN v ELSE m[x]]

EmptyMap == [x \in {} |-> 0]

\* `let e = v; F(e)`: v is evaluated once and F gets its value
Bind(v, F(_)) == CHOOSE r \in {F(e) : e \in {v}} : TRUE

Init ==
    /\ postings_lists = EmptyMap
    /\ next_doc_id = 0
    /\ document_frequency = EmptyMap
    /\ term_frequency = EmptyMap
    /\ document_length = <<>>
    /\ total_document_length = 0
    /\ average_document_length = <<0, 1>>
    /\ document_count = 0
    /\ doc_terms = EmptyMap
    /\ corpus = <<>>
    /\ returned = <<>>
    /\ call = NoCall
    /\ pc = "idle"
    /\ low_index = 0
    /\ high_index = 0
    /\ mid = <<>>
    /\ result = Ok(None)
    /\ dict = [term_ids |-> EmptyMap, terms |-> EmptyMap, next_id |-> 1]
    /\ added = <<>>
    /\ doc_meta = EmptyMap
    /\ disk = [index |-> None, analyzer |-> None, docmeta |-> None]
    /\ answers = EmptyMap
    /\ sv = EmptyMap
    /\ tf_idf_matrix = <<EmptyMap>>
    /\ computed = <<>>
    /\ inverted = EmptyMap

\* postings.push(..) of a fresh posting, whatever the last posting is
PushPositionAlways(postings, doc_id, term_offset) ==
    Append(postings, [doc_id |-> doc_id, term_frequency |-> 1,
                      positions |-> <<term_offset>>])

\* the update of postings.last_mut() without post.term_frequency += 1
PushPositionNoCount(postings, doc_id, term_offset) ==
    IF Len(postings) = 0 \/ postings[Len(postings)].doc_id # doc_id
    THEN Append(postings, [doc_id |-> doc_id, term_frequency |-> 1,
                           positions |-> <<term_offset>>])
    ELSE [postings EXCEPT ![Len(postings)] =
            [doc_id |-> @.doc_id,
             term_frequency |-> @.term_frequency,
             positions |-> Append(@.positions, term_offset)]]

\* postings.push(..) or the update of postings.last_mut() for one token
PushPosition(postings, doc_id, term_offset) ==
    IF Len(postings) = 0 \/ postings[Len(postings)].doc_id # doc_id
    THEN Append(postings, [doc_id |-> doc_id, term_frequency |-> 1,
                           positions |-> <<term_offset>>])
    ELSE [postings EXCEPT ![Len(postings)] =
            [doc_id |-> @.doc_id,
             term_frequency |-> @.term_frequency + 1,
             positions |-> Append(@.positions, term_offset)]]

\* the document_frequency update of one token without the cached_term_id guard
CountDocumentEveryToken(st, tid) ==
    Put(st.document_frequency, tid,
        IF tid \in DOMAIN st.document_frequency
        THEN st.document_frequency[tid] + 1 ELSE 1)

\* the document_frequency update of one token
CountDocument(st, tid) ==
    IF tid \notin st.cached_term_id
    THEN Put(st.document_frequency, tid,
             IF tid \in DOMAIN st.document_frequency
             THEN st.document_frequency[tid] + 1 ELSE 1)
    ELSE st.document_frequency

\* the iteration that stores seq itself, the 0-based offset, as the position
IndexTokenZeroBased(st, seq, tid, doc_id) ==
    LET term_offset == seq
        postings == IF tid \in DOMAIN st.postings_lists
                    THEN st.postings_lists[tid] ELSE <<>>
    IN [postings_lists |->
            Put(st.postings_lists, tid, PushPosition(postings, doc_id, term_offset)),
        term_frequency |->
            Put(st.term_frequency, <<tid, doc_id>>,
                IF <<tid, doc_id>> \in DOMAIN st.term_frequency
                THEN st.term_frequency[<<tid, doc_id>>] + 1 ELSE 1),
        document_frequency |-> CountDocument(st, tid),
        cached_term_id |-> st.cached_term_id \cup {tid},
        doc_terms |->
            Put(st.doc_terms, doc_id,
                (IF doc_id \in DOMAIN st.doc_terms THEN st.doc_terms[doc_id] ELSE {})
                    \cup {tid})]

\* one iteration of the loop of add_document over (seq, tid);
\* seq is 0-based as enumerate() yields it
IndexToken(st, seq, tid, doc_id) ==
    LET term_offset == seq + 1
        postings == IF tid \in DOMAIN st.postings_lists
                    THEN st.postings_lists[tid] ELSE <<>>
    IN [postings_lists |->
            Put(st.postings_lists, tid, PushPosition(postings, doc_id, term_offset)),
        term_frequency |->
            Put(st.term_frequency, <<tid, doc_id>>,
                IF <<tid, doc_id>> \in DOMAIN st.term_frequency
                THEN st.term_frequency[<<tid, doc_id>>] + 1 ELSE 1),
        document_frequency |-> CountDocument(st, tid),
        cached_term_id |-> st.cached_term_id \cup {tid},
        doc_terms |->
            Put(st.doc_terms, doc_id,
                (IF doc_id \in DOMAIN st.doc_terms THEN st.doc_terms[doc_id] ELSE {})
                    \cup {tid})]

\* the loop of add_document over the first n tokens of term_ids
RECURSIVE IndexTokens(_, _, _, _)
IndexTokens(st, term_ids, n, doc_id) ==
    IF n = 0 THEN st
    ELSE IndexToken(IndexTokens(st, term_ids, n - 1, doc_id),
                    n - 1, term_ids[n], doc_id)

\* next_doc_id() that returns the field's value before the increment
next_doc_id_post == [field |-> next_doc_id + 1, ret |-> next_doc_id]

\* next_doc_id() that increments the field twice
next_doc_id_twice == [field |-> next_doc_id + 2, ret |-> next_doc_id + 2]

\* fn next_doc_id(&mut self) -> DocId: the field's new value and the value returned
next_doc_id_call == [field |-> next_doc_id + 1, ret |-> next_doc_id + 1]

\* a document length that counts the distinct terms instead of the tokens
DistinctTermCount(term_ids) == Cardinality({term_ids[i] : i \in 1..Len(term_ids)})

\* let document_length = term_ids.len() as u32
DocumentLengthOf(term_ids) == Len(term_ids)

\* fn add_document(&mut self, term_ids) -> DocId
add_document(term_ids) ==
    LET doc_id == next_doc_id_call.ret
        len == DocumentLengthOf(term_ids)
        st == IndexTokens([postings_lists |-> postings_lists,
                           term_frequency |-> term_frequency,
                           document_frequency |-> document_frequency,
                           cached_term_id |-> {},
                           doc_terms |-> doc_terms],
                          term_ids, Len(term_ids), doc_id)
    IN /\ next_doc_id' = next_doc_id_call.field
       /\ document_length' = Append(document_length, len)
       /\ total_document_length' = total_document_length + len
       /\ document_count' = document_count + 1
       /\ average_document_length' = <<total_document_length + len, document_count + 1>>
       /\ postings_lists' = st.postings_lists
       /\ term_frequency' = st.term_frequency
       /\ document_frequency' = st.document_frequency
       /\ doc_terms' = st.doc_terms
       /\ corpus' = Append(corpus, term_ids)
       /\ returned' = Append(returned, doc_id)

\* a caller adds one more document to the index (index-only specification)
AddDocument ==
    /\ pc = "idle"
    /\ document_count < MaxDocs
    /\ \E term_ids \in SeqsUpTo(MaxTokens - total_document_length) :
            add_document(term_ids)
    /\ UNCHANGED <<other_vars, query_vars, facade_vars>>

\* a caller adds one more document to the index that queries run against
AddQueryDocument ==
    /\ pc = "idle"
    /\ document_count < MaxQueryDocs
    /\ \E term_ids \in SeqsUpTo(MaxTokens - total_document_length) :
            add_document(term_ids)
    /\ UNCHANGED <<other_vars, query_vars, facade_vars>>

(* ------------------------ positional primitives ----------------------- *)

\* fn get_document_frequency(&self, term) -> Option<&u32>
get_document_frequency(term) ==
    IF term \in DOMAIN document_frequency THEN Some(document_frequency[term]) ELSE None

\* fn get_positions(&self, term, doc) -> Option<&Positions>;
\* postings_lists.get(&term).unwrap() panics for a term without postings
get_positions(term, doc) ==
    IF term \notin DOMAIN postings_lists THEN Panic
    ELSE LET posts == postings_lists[term]
             hits == {i \in 1..Len(posts) : posts[i].doc_id = doc}
         IN IF hits = {} THEN Ok(None)
            ELSE LET post == posts[CHOOSE i \in hits : \A j \in hits : i <= j]
                 IN IF Len(post.positions) > 0 THEN Ok(Some(post.positions)) ELSE Panic

\* positions[i] with the 0-based index of the code
At(positions, i) == positions[i + 1]

\* a test_fn that is next's closure for prev too
test_fn_le(op, v1, v2) == v1 <= v2

\* the closures handed to binary_search as test_fn: next's |v1,v2| v1 <= v2, prev's |v1,v2| v1 < v2
test_fn(op, v1, v2) == IF op = "next" THEN v1 <= v2 ELSE v1 < v2

\* the closures handed as retval_fn: next's |_,v2| v2, prev's |v1,_| v1
retval_fn(op, v1, v2) == IF op = "next" THEN v2 ELSE v1

\* while high_index - low_index > 1
LoopGuard(low, high) == high - low > 1

\* mid = (high_index + low_index)/2
MidOf(low, high) == (high + low) \div 2

\* the body of the while loop of binary_search once positions[mid] is read:
\* the new <<low_index, high_index>>
LoopBody(positions, low, high, current, op) ==
    LET m == MidOf(low, high)
    IN IF test_fn(op, At(positions, m), current) THEN <<m, high>> ELSE <<low, m>>

\* fn binary_search(positions, low, high, current, test_fn, retval_fn) -> usize;
\* an index past the end of positions panics
RECURSIVE binary_search(_, _, _, _, _)
binary_search(positions, low, high, current, op) ==
    IF LoopGuard(low, high)
    THEN IF MidOf(low, high) >= Len(positions) THEN Panic
         ELSE Bind(LoopBody(positions, low, high, current, op),
                   LAMBDA lh : binary_search(positions, lh[1], lh[2], current, op))
    ELSE Ok(retval_fn(op, low, high))

\* Some(positions[target]) for the index binary_search returned
Target(positions, target) ==
    IF target.kind = "panic" \/ target.val >= Len(positions) THEN Panic
    ELSE Ok(Some(At(positions, target.val)))

\* fn first(&self, doc, term) -> Option<TermOffset>
first(doc, term) ==
    IF get_document_frequency(term) = None THEN Ok(None)
    ELSE LET gp == get_positions(term, doc)
         IN IF gp.kind = "panic" THEN Panic
            ELSE IF gp.val = None THEN Ok(None)
            ELSE Ok(Some(gp.val[1][1]))

\* fn last(&self, doc, term) -> Option<TermOffset>
last(doc, term) ==
    IF get_document_frequency(term) = None THEN Ok(None)
    ELSE LET gp == get_positions(term, doc)
         IN IF gp.kind = "panic" THEN Panic
            ELSE IF gp.val = None THEN Ok(None)
            ELSE Ok(Some(gp.val[1][Len(gp.val[1])]))

\* next that starts the search at low = 1
next_entry_low_one(doc, term, after_position) ==
    IF get_document_frequency(term) = None THEN [done |-> TRUE, res |-> Ok(None)]
    ELSE LET gp == get_positions(term, doc)
         IN IF gp.kind = "panic" THEN [done |-> TRUE, res |-> Panic]
            ELSE IF gp.val = None THEN [done |-> TRUE, res |-> Ok(None)]
            ELSE LET positions == gp.val[1]
                 IN IF positions[Len(positions)] <= after_position
                    THEN [done |-> TRUE, res |-> Ok(None)]
                    ELSE IF positions[1] > after_position
                    THEN [done |-> TRUE, res |-> Ok(Some(positions[1]))]
                    ELSE [done |-> FALSE, positions |-> positions,
                          low |-> 1, high |-> Len(positions) - 1]

\* next up to its call of binary_search: either the value returned early
\* (done) or the arguments of the search
next_entry(doc, term, after_position) ==
    IF get_document_frequency(term) = None THEN [done |-> TRUE, res |-> Ok(None)]
    ELSE LET gp == get_positions(term, doc)
         IN IF gp.kind = "panic" THEN [done |-> TRUE, res |-> Panic]
            ELSE IF gp.val = None THEN [done |-> TRUE, res |-> Ok(None)]
            ELSE LET positions == gp.val[1]
                 IN IF positions[Len(positions)] <= after_position
                    THEN [done |-> TRUE, res |-> Ok(None)]
                    ELSE IF positions[1] > after_position
                    THEN [done |-> TRUE, res |-> Ok(Some(positions[1]))]
                    ELSE [done |-> FALSE, positions |-> positions,
                          low |-> 0, high |-> Len(positions) - 1]

\* a prev that gives up when the first position is before_position - 1
prev_entry_eager(doc, term, before_position) ==
    IF get_document_frequency(term) = None THEN [done |-> TRUE, res |-> Ok(None)]
    ELSE LET gp == get_positions(term, doc)
         IN IF gp.kind = "panic" THEN [done |-> TRUE, res |-> Panic]
            ELSE IF gp.val = None THEN [done |-> TRUE, res |-> Ok(None)]
            ELSE LET positions == gp.val[1]
                 IN IF positions[1] >= before_position - 1
                    THEN [done |-> TRUE, res |-> Ok(None)]
                    ELSE IF positions[Len(positions)] < before_position
                    THEN [done |-> TRUE, res |-> Ok(Some(positions[Len(positions)]))]
                    ELSE [done |-> FALSE, positions |-> positions,
                          low |-> 0, high |-> Len(positions)]

\* prev up to its call of binary_search
prev_entry(doc, term, before_position) ==
    IF get_document_frequency(term) = None THEN [done |-> TRUE, res |-> Ok(None)]
    ELSE LET gp == get_positions(term, doc)
         IN IF gp.kind = "panic" THEN [done |-> TRUE, res |-> Panic]
            ELSE IF gp.val = None THEN [done |-> TRUE, res |-> Ok(None)]
            ELSE LET positions == gp.val[1]
                 IN IF positions[1] >= before_position
                    THEN [done |-> TRUE, res |-> Ok(None)]
                    ELSE IF positions[Len(positions)] < before_position
                    THEN [done |-> TRUE, res |-> Ok(Some(positions[Len(positions)]))]
                    ELSE [done |-> FALSE, positions |-> positions,
                          low |-> 0, high |-> Len(positions)]

\* fn next(&self, doc, term, after_position) -> Option<TermOffset>
next(doc, term, after_position) ==
    LET e == next_entry(doc, term, after_position)
    IN IF e.done THEN e.res
       ELSE Target(e.positions,
                   binary_search(e.positions, e.low, e.high, after_position, "next"))

\* fn prev(&self, doc, term, before_position) -> Option<TermOffset>
prev(doc, term, before_position) ==
    LET e == prev_entry(doc, term, before_position)
    IN IF e.done THEN e.res
       ELSE Target(e.positions,
                   binary_search(e.positions, e.low, e.high, before_position, "prev"))

(* --------------------------- phrase matching -------------------------- *)

\* the forward walk of next_phrase over the first n terms of phrase:
\* for term in phrase.iter() { end = self.next(doc, term, end)? }
RECURSIVE ForwardWalk(_, _, _, _)
ForwardWalk(doc, phrase, n, position) ==
    IF n = 0 THEN Ok(Some(position))
    ELSE Bind(ForwardWalk(doc, phrase, n - 1, position),
              LAMBDA e : IF e.kind = "panic" \/ e.val = None THEN e
                         ELSE next(doc, phrase[n], e.val[1]))

\* the backward walk of next_phrase over the terms phrase[i], phrase[i-1], ..
\* phrase[1] (phrase.iter().rev().skip(1) is the call with i = len - 1);
\* a prev that finds nothing reaches assert!(false)
RECURSIVE BackwardWalk(_, _, _, _)
BackwardWalk(doc, phrase, i, start) ==
    IF i = 0 THEN Ok(Some(start))
    ELSE Bind(prev(doc, phrase[i], start),
              LAMBDA p : IF p.kind = "panic" \/ p.val = None THEN Panic
                         ELSE BackwardWalk(doc, phrase, i - 1, p.val[1]))

\* a width test that compares with phrase.len() instead of phrase.len() - 1
IsContiguousOffByOne(start, end, len) == start < end /\ end - start = len

\* start < end && end - start == (phrase.len() - 1) as TermOffset
IsContiguous(start, end, len) == start < end /\ end - start = len - 1

\* fn next_phrase(&self, doc, phrase, position) -> Option<(TermOffset, TermOffset)>
RECURSIVE next_phrase(_, _, _)
next_phrase(doc, phrase, position) ==
    IF Len(phrase) <= 1 THEN Ok(None)
    ELSE Bind(ForwardWalk(doc, phrase, Len(phrase), position),
         LAMBDA fw :
            IF fw.kind = "panic" \/ fw.val = None THEN fw
            ELSE Bind(BackwardWalk(doc, phrase, Len(phrase) - 1, fw.val[1]),
                 LAMBDA bw :
                    IF bw.kind = "panic" THEN Panic
                    ELSE IF IsContiguous(bw.val[1], fw.val[1], Len(phrase))
                    THEN Ok(Some(<<bw.val[1], fw.val[1]>>))
                    ELSE next_phrase(doc, phrase, bw.val[1])))

\* a loop that continues after the end of the occurrence found
AdvanceToEnd(r) == r[2]

\* pos = r.0 in the loop of all_phrase
Advance(r) == r[1]

\* the loop of all_phrase from pos on, res holding what was pushed so far
RECURSIVE all_phrase_loop(_, _, _, _)
all_phrase_loop(doc, phrase, pos, res) ==
    Bind(next_phrase(doc, phrase, pos),
         LAMBDA r :
            IF r.kind = "panic" THEN Panic
            ELSE IF r.val = None THEN Ok(res)
            ELSE all_phrase_loop(doc, phrase, Advance(r.val[1]), Append(res, r.val[1])))

\* fn all_phrase(&self, doc, phrase) -> Vec<(TermOffset, TermOffset)>
all_phrase(doc, phrase) ==
    IF Len(phrase) = 0 THEN Ok(<<>>)
    ELSE IF Len(phrase) = 1
    THEN LET gp == get_positions(phrase[1], doc)
         IN IF gp.kind = "panic" THEN Panic
            ELSE IF gp.val = None THEN Ok(<<>>)
            ELSE all_phrase_loop(doc, phrase, 0,
                    [i \in 1..Len(gp.val[1]) |-> <<gp.val[1][i], gp.val[1][i]>>])
    ELSE all_phrase_loop(doc, phrase, 0, <<>>)

(* ------------------------------ the calls ----------------------------- *)

\* the after_position / before_position arguments tried: every offset of a
\* longest document, both neighbours, and the largest TermOffset
Positions == 0..(MaxTokens + 1) \cup {TermOffsetMax}

\* the position list the search of the call in progress runs on
SearchPositions == get_positions(call.term, call.doc).val[1]

\* a caller calls next(doc, term, pos): it returns at once or enters binary_search
CallNext ==
    /\ pc = "idle"
    /\ \E doc \in 1..document_count, term \in Terms, pos \in Positions :
        LET e == next_entry(doc, term, pos)
        IN /\ call' = [op |-> "next", doc |-> doc, term |-> term, pos |-> pos,
                       phrase |-> <<>>]
           /\ mid' = <<>>
           /\ IF e.done
              THEN /\ result' = e.res
                   /\ pc' = "done"
                   /\ UNCHANGED <<low_index, high_index>>
              ELSE /\ pc' = "search"
                   /\ low_index' = e.low
                   /\ high_index' = e.high
                   /\ UNCHANGED result
    /\ UNCHANGED <<other_vars, index_vars, facade_vars>>

\* a caller calls prev(doc, term, pos)
CallPrev ==
    /\ pc = "idle"
    /\ \E doc \in 1..document_count, term \in Terms, pos \in Positions :
        LET e == prev_entry(doc, term, pos)
        IN /\ call' = [op |-> "prev", doc |-> doc, term |-> term, pos |-> pos,
                       phrase |-> <<>>]
           /\ mid' = <<>>
           /\ IF e.done
              THEN /\ result' = e.res
                   /\ pc' = "done"
                   /\ UNCHANGED <<low_index, high_index>>
              ELSE /\ pc' = "search"
                   /\ low_index' = e.low
                   /\ high_index' = e.high
                   /\ UNCHANGED result
    /\ UNCHANGED <<other_vars, index_vars, facade_vars>>

\* one iteration of the while loop of binary_search
SearchStep ==
    /\ pc = "search"
    /\ LoopGuard(low_index, high_index)
    /\ mid' = Append(mid, MidOf(low_index, high_index))
    /\ IF MidOf(low_index, high_index) >= Len(SearchPositions)
       THEN /\ result' = Panic
            /\ pc' = "done"
            /\ UNCHANGED <<low_index, high_index>>
       ELSE LET lh == LoopBody(SearchPositions, low_index, high_index, call.pos, call.op)
            IN /\ low_index' = lh[1]
               /\ high_index' = lh[2]
               /\ UNCHANGED <<pc, result>>
    /\ UNCHANGED <<other_vars, index_vars, facade_vars, call>>

\* the loop of binary_search ends; next / prev return positions[target]
SearchReturn ==
    /\ pc = "search"
    /\ ~LoopGuard(low_index, high_index)
    /\ result' = Target(SearchPositions, Ok(retval_fn(call.op, low_index, high_index)))
    /\ pc' = "done"
    /\ UNCHANGED <<other_vars, index_vars, facade_vars, call, low_index, high_index, mid>>

\* a caller calls next_phrase(doc, phrase, position)
CallNextPhrase ==
    /\ pc = "idle"
    /\ \E doc \in 1..document_count, phrase \in SeqsUpTo(MaxPhraseLen),
          position \in 0..MaxTokens :
        /\ call' = [op |-> "next_phrase", doc |-> doc, term |-> 0, pos |-> position,
                    phrase |-> phrase]
        /\ result' = next_phrase(doc, phrase, position)
    /\ pc' = "done"
    /\ UNCHANGED <<other_vars, index_vars, facade_vars, low_index, high_index, mid>>

\* a caller calls all_phrase(doc, phrase)
CallAllPhrase ==
    /\ pc = "idle"
    /\ \E doc \in 1..document_count, phrase \in SeqsUpTo(MaxPhraseLen) :
        /\ call' = [op |-> "all_phrase", doc |-> doc, term |-> 0, pos |-> 0,
                    phrase |-> phrase]
        /\ result' = all_phrase(doc, phrase)
    /\ pc' = "done"
    /\ UNCHANGED <<other_vars, index_vars, facade_vars, low_index, high_index, mid>>

\* the caller takes the value returned and the call's frame is gone
Return ==
    /\ pc = "done"
    /\ pc' = "idle"
    /\ call' = NoCall
    /\ low_index' = 0
    /\ high_index' = 0
    /\ mid' = <<>>
    /\ result' = Ok(None)
    /\ UNCHANGED <<other_vars, index_vars, facade_vars>>

(* --------------------------------- f32 -------------------------------- *)
\* An f32 is [kind |-> "num", v |-> thousandths], a NaN or an infinity with
\* its sign in v.  Products and quotients are rounded down to a thousandth.

Num(v) == [kind |-> "num", v |-> v]
NaN == [kind |-> "nan", v |-> 0]
Inf(sign) == [kind |-> "inf", v |-> sign]

\* n as f32
Whole(n) == Num(n * 1000)

Sign(x) == IF x.v < 0 THEN -1 ELSE IF x.v > 0 THEN 1 ELSE 0

\* x + y
FAdd(x, y) ==
    IF x.kind = "nan" \/ y.kind = "nan" THEN NaN
    ELSE IF x.kind = "inf" /\ y.kind = "inf" THEN (IF x.v = y.v THEN x ELSE NaN)
    ELSE IF x.kind = "inf" THEN x
    ELSE IF y.kind = "inf" THEN y
    ELSE Num(x.v + y.v)

\* x - y
FSub(x, y) == FAdd(x, [kind |-> y.kind, v |-> 0 - y.v])

\* x * y
FMul(x, y) ==
    IF x.kind = "nan" \/ y.kind = "nan" THEN NaN
    ELSE IF x.kind = "inf" \/ y.kind = "inf"
    THEN (IF Sign(x) * Sign(y) = 0 THEN NaN ELSE Inf(Sign(x) * Sign(y)))
    ELSE Num((x.v * y.v) \div 1000)

\* x / y: 0.0 / 0.0 is NaN, any other value over 0.0 an infinity
FDiv(x, y) ==
    IF x.kind = "nan" \/ y.kind = "nan" THEN NaN
    ELSE IF x.kind = "inf" THEN (IF y.kind = "inf" THEN NaN
                                 ELSE Inf(IF y.v < 0 THEN 0 - x.v ELSE x.v))
    ELSE IF y.kind = "inf" THEN Num(0)
    ELSE IF y.v = 0 THEN (IF x.v = 0 THEN NaN ELSE Inf(Sign(x)))
    ELSE Num((x.v * 1000) \div y.v)

\* a.partial_cmp(&b): None when either is NaN
partial_cmp(a, b) ==
    IF a.kind = "nan" \/ b.kind = "nan" THEN None
    ELSE LET ka == IF a.kind = "inf" THEN a.v * TermOffsetMax ELSE a.v
             kb == IF b.kind = "inf" THEN b.v * TermOffsetMax ELSE b.v
         IN Some(IF ka < kb THEN "Less" ELSE IF ka > kb THEN "Greater" ELSE "Equal")

\* the largest r with r * r <= n, searched between lo and hi
RECURSIVE ISqrtIn(_, _, _)
ISqrtIn(n, lo, hi) ==
    IF hi - lo <= 1 THEN lo
    ELSE Bind((lo + hi) \div 2,
              LAMBDA m : IF m * m <= n THEN ISqrtIn(n, m, hi) ELSE ISqrtIn(n, lo, m))

\* x.sqrt() of a value that is not negative
FSqrt(x) ==
    IF x.kind # "num" THEN x ELSE Num(ISqrtIn(x.v * 1000, 0, 46341))

\* 1000 * log2(n) for n = 1 .. 64, rounded
Log2Table ==
    <<0, 1000, 1585, 2000, 2322, 2585, 2807, 3000, 3170, 3322, 3459, 3585, 3700,
      3807, 3907, 4000, 4087, 4170, 4248, 4322, 4392, 4459, 4524, 4585, 4644,
      4700, 4755, 4807, 4858, 4907, 4954, 5000, 5044, 5087, 5129, 5170, 5209,
      5248, 5285, 5322, 5358, 5392, 5426, 5459, 5492, 5524, 5555, 5585, 5615,
      5644, 5672, 5700, 5728, 5755, 5781, 5807, 5833, 5858, 5883, 5907, 5931,
      5954, 5977, 6000>>

RECURSIVE GCD(_, _)
GCD(a, b) == IF b = 0 THEN a ELSE GCD(b, a % b)

\* (p as f32 / q as f32).log2() for integers p, q >= 1: equal quotients get
\* equal logarithms, and the logarithm is 0.0 exactly when p = q
Log2Ratio(p, q) == Num(Log2Table[p \div GCD(p, q)] - Log2Table[q \div GCD(p, q)])

(* ----------------------------- SparseVector --------------------------- *)
\* a SparseVector is a map TermId -> f32

RECURSIVE SumOfSquares(_, _)
SumOfSquares(vec, keys) ==
    IF keys = {} THEN Num(0)
    ELSE Bind(CHOOSE k \in keys : TRUE,
              LAMBDA k : FAdd(FMul(vec[k], vec[k]), SumOfSquares(vec, keys \ {k})))

\* fn vec_len(&self) -> f32
vec_len(vec) == FSqrt(SumOfSquares(vec, DOMAIN vec))

\* self.insert(id, value): a value set before is overwritten
vec_set_overwrite(vec, id, value) == Put(vec, id, value)

\* fn vec_set(&mut self, id, value): self.entry(id).or_insert(value)
vec_set(vec, id, value) == IF id \in DOMAIN vec THEN vec ELSE Put(vec, id, value)

\* fn vec_get(&self, id) -> f32
vec_get(vec, id) == IF id \in DOMAIN vec THEN vec[id] ELSE Num(0)

\* a vec_normalize that leaves a vector of length 0.0 as it is
vec_normalize_guarded(vec) ==
    IF vec_len(vec) = Num(0) THEN vec
    ELSE [id \in DOMAIN vec |-> FDiv(vec[id], vec_len(vec))]

\* fn vec_normalize(&mut self): every value is divided by the length
vec_normalize(vec) == [id \in DOMAIN vec |-> FDiv(vec[id], vec_len(vec))]

RECURSIVE SumOfProducts(_, _, _)
SumOfProducts(sv1, sv2, keys) ==
    IF keys = {} THEN Num(0)
    ELSE Bind(CHOOSE k \in keys : TRUE,
              LAMBDA k : FAdd(FMul(sv1[k], sv2[k]), SumOfProducts(sv1, sv2, keys \ {k})))

\* fn vec_dot(&self, other) -> f32: the products over the keys of the shorter
\* vector that the longer one has too
vec_dot(self, other) ==
    LET sv1 == IF Cardinality(DOMAIN self) <= Cardinality(DOMAIN other) THEN self ELSE other
        sv2 == IF Cardinality(DOMAIN self) <= Cardinality(DOMAIN other) THEN other ELSE self
    IN SumOfProducts(sv1, sv2, {id \in DOMAIN sv1 : id \in DOMAIN sv2})

\* the values callers hand to vec_set: 0.0, 2.8 and 5.5
VecValues == {Num(0), Num(2800), Num(5500)}

\* a caller calls sv.vec_set(id, value) -> (TermId, f32)
VecSet ==
    /\ pc = "idle"
    /\ \E id \in 1..NumVecIds, value \in VecValues :
        /\ call' = [op |-> "vec_set", id |-> id, value |-> value, before |-> sv]
        /\ sv' = vec_set(sv, id, value)
        /\ result' = Ok(<<id, value>>)
    /\ pc' = "done"
    /\ UNCHANGED <<index_vars, facade_vars, low_index, high_index, mid,
                   tf_idf_matrix, computed, inverted>>

\* a caller calls sv.vec_get(id) -> f32
VecGet ==
    /\ pc = "idle"
    /\ \E id \in 1..NumVecIds :
        /\ call' = [op |-> "vec_get", id |-> id, value |-> Num(0), before |-> sv]
        /\ result' = Ok(vec_get(sv, id))
    /\ pc' = "done"
    /\ UNCHANGED <<other_vars, index_vars, facade_vars, low_index, high_index, mid>>

(* ------------------------ document sets and TF-IDF -------------------- *)

\* the elements of a list
Elements(q) == {q[i] : i \in 1..Len(q)}

\* fn docs(&self, term_id) -> Option<HashSet<DocId>>
docs(term_id) ==
    IF term_id \in DOMAIN postings_lists
    THEN Some({postings_lists[term_id][i].doc_id : i \in 1..Len(postings_lists[term_id])})
    ELSE None

\* the loop of docs_contain_all over the first n terms: a term docs() knows
\* nothing of is passed over
RECURSIVE contain_all_loop(_, _)
contain_all_loop(term_list, n) ==
    IF n = 0 THEN [initialized |-> FALSE, doc_set |-> {}]
    ELSE Bind(contain_all_loop(term_list, n - 1),
              LAMBDA st : IF docs(term_list[n]) = None THEN st
                          ELSE [initialized |-> TRUE,
                                doc_set |-> IF st.initialized
                                            THEN st.doc_set \cap docs(term_list[n])[1]
                                            ELSE docs(term_list[n])[1]])

\* fn docs_contain_all(&self, term_list) -> Option<HashSet<DocId>>
docs_contain_all(term_list) ==
    LET st == contain_all_loop(term_list, Len(term_list))
    IN IF st.initialized THEN Some(st.doc_set) ELSE None

\* fn docs_contain_any(&self, term_list) -> HashSet<DocId>
docs_contain_any(term_list) ==
    UNION {docs(t)[1] : t \in {t \in Elements(term_list) : docs(t) # None}}

\* fn is_valid_doc_id(&self, doc_id) -> bool
is_valid_doc_id(doc_id) == doc_id >= 1 /\ doc_id <= document_count + 1

\* fn get_document_length(&self, doc) -> u32: document_length[doc as usize - 1]
get_document_length(doc) ==
    IF doc >= 1 /\ doc - 1 < Len(document_length) THEN Ok(document_length[doc]) ELSE Panic

\* fn get_term_frequency(&self, term, doc) -> Option<&u32>
get_term_frequency(term, doc) ==
    IF <<term, doc>> \in DOMAIN term_frequency
    THEN Some(term_frequency[<<term, doc>>]) ELSE None

\* fold(0u32, |sum, posting| sum + posting.term_frequency) over the first n postings
RECURSIVE fold_term_frequency(_, _)
fold_term_frequency(postings, n) ==
    IF n = 0 THEN 0
    ELSE fold_term_frequency(postings, n - 1) + postings[n].term_frequency

\* fn get_term_occurences_num(&self, term) -> u32
get_term_occurences_num(term) ==
    IF term \in DOMAIN postings_lists
    THEN fold_term_frequency(postings_lists[term], Len(postings_lists[term]))
    ELSE 0

\* fn get_average_document_length(&self) -> f32
get_average_document_length ==
    FDiv(Whole(average_document_length[1]), Whole(average_document_length[2]))

\* the query term frequencies: for &tid in terms { entry(tid).and_modify(+1).or_insert(1) }
query_term_freq(term_list) ==
    [tid \in Elements(term_list) |->
        Cardinality({i \in 1..Len(term_list) : term_list[i] = tid})]

\* (freq.log2() + 1f32) * (self.document_count as f32 / df as f32).log2()
term_tfidf(freq, df) ==
    FMul(FAdd(Num(Log2Table[freq]), Whole(1)), Log2Ratio(document_count, df))

\* the vector after vec_set(k, weights[k]) for every k of keys
RECURSIVE vec_from(_, _)
vec_from(weights, keys) ==
    IF keys = {} THEN EmptyMap
    ELSE Bind(CHOOSE k \in keys : TRUE,
              LAMBDA k : vec_set(vec_from(weights, keys \ {k}), k, weights[k]))

\* fn get_doc_tfidf_vector(&self, doc) -> SparseVector
get_doc_tfidf_vector(doc) ==
    IF ~is_valid_doc_id(doc) THEN Panic
    ELSE IF doc \notin DOMAIN doc_terms THEN Ok(vec_normalize(EmptyMap))
    ELSE IF \E term \in doc_terms[doc] :
                <<term, doc>> \notin DOMAIN term_frequency
                    \/ term \notin DOMAIN document_frequency
    THEN Panic
    ELSE Ok(vec_normalize(vec_from(
                [term \in doc_terms[doc] |->
                    term_tfidf(term_frequency[<<term, doc>>], document_frequency[term])],
                doc_terms[doc])))

\* fn get_phrase_tfidf_vector(&self, terms) -> Box<SparseVector>;
\* self.document_frequency.get(&tid).unwrap() panics for a term without postings
get_phrase_tfidf_vector(term_list) ==
    IF \E tid \in Elements(term_list) : tid \notin DOMAIN document_frequency THEN Panic
    ELSE Ok(vec_normalize(vec_from(
                [tid \in Elements(term_list) |->
                    term_tfidf(query_term_freq(term_list)[tid], document_frequency[tid])],
                Elements(term_list))))

\* a rebuild loop that records only the first posting of every term
first_posting_terms(postings, d) ==
    {t \in DOMAIN postings : postings[t][1].doc_id = d}

\* the terms that rebuild's loops insert into doc_terms[d]
posting_terms(postings, d) ==
    {t \in DOMAIN postings : \E i \in 1..Len(postings[t]) : postings[t][i].doc_id = d}

\* fn rebuild(&mut self) -> bool: the doc_terms afterwards, for an index with
\* the given postings_lists and doc_terms
rebuild(postings, dterms) ==
    IF Cardinality(DOMAIN dterms) = 0
    THEN [d \in UNION {{postings[t][i].doc_id : i \in 1..Len(postings[t])} :
                        t \in DOMAIN postings} |-> posting_terms(postings, d)]
    ELSE dterms

\* #[derive(Serialize)] of PositionList: every field but doc_terms, which is
\* #[serde(skip)]; the callers' records of the documents go along
serialize_index ==
    [postings_lists |-> postings_lists,
     next_doc_id |-> next_doc_id,
     document_frequency |-> document_frequency,
     term_frequency |-> term_frequency,
     document_length |-> document_length,
     total_document_length |-> total_document_length,
     average_document_length |-> average_document_length,
     document_count |-> document_count,
     corpus |-> corpus,
     returned |-> returned]

\* #[derive(Deserialize)] of PositionList: doc_terms is Default::default()
deserialize_index(bytes) ==
    [postings_lists |-> bytes.postings_lists,
     next_doc_id |-> bytes.next_doc_id,
     document_frequency |-> bytes.document_frequency,
     term_frequency |-> bytes.term_frequency,
     document_length |-> bytes.document_length,
     total_document_length |-> bytes.total_document_length,
     average_document_length |-> bytes.average_document_length,
     document_count |-> bytes.document_count,
     doc_terms |-> EmptyMap,
     corpus |-> bytes.corpus,
     returned |-> bytes.returned]

\* the index of the next state is idx
SetIndex(idx) ==
    /\ postings_lists' = idx.postings_lists
    /\ next_doc_id' = idx.next_doc_id
    /\ document_frequency' = idx.document_frequency
    /\ term_frequency' = idx.term_frequency
    /\ document_length' = idx.document_length
    /\ total_document_length' = idx.total_document_length
    /\ average_document_length' = idx.average_document_length
    /\ document_count' = idx.document_count
    /\ doc_terms' = idx.doc_terms
    /\ corpus' = idx.corpus
    /\ returned' = idx.returned

\* the fields of the index, doc_terms among them
IndexFields ==
    [postings_lists |-> postings_lists,
     next_doc_id |-> next_doc_id,
     document_frequency |-> document_frequency,
     term_frequency |-> term_frequency,
     document_length |-> document_length,
     total_document_length |-> total_document_length,
     average_document_length |-> average_document_length,
     document_count |-> document_count,
     doc_terms |-> doc_terms]

\* the index is written out and read back: idx.doc_terms = HashMap::new()
Deserialise ==
    /\ pc = "idle"
    /\ call' = [op |-> "deserialise", before |-> IndexFields]
    /\ SetIndex(deserialize_index(serialize_index))
    /\ pc' = "cleared"
    /\ UNCHANGED <<other_vars, low_index, high_index, mid, result, facade_vars>>

\* a caller calls idx.rebuild(), right after the index was read back or at any other time
Rebuild ==
    /\ pc \in {"idle", "cleared"}
    /\ call' = [op |-> "rebuild",
                before |-> IF pc = "cleared" THEN call.before ELSE IndexFields,
                cleared |-> pc = "cleared"]
    /\ doc_terms' = rebuild(postings_lists, doc_terms)
    /\ result' = Ok(TRUE)
    /\ pc' = "done"
    /\ UNCHANGED <<other_vars, postings_lists, next_doc_id, document_frequency, term_frequency,
                   document_length, total_document_length, average_document_length,
                   document_count, corpus, returned, low_index, high_index, mid,
                   facade_vars>>

\* the caller of the load goes on with the index as it was read back
ReturnLoaded ==
    /\ pc = "cleared"
    /\ pc' = "idle"
    /\ call' = NoCall
    /\ UNCHANGED <<other_vars, index_vars, facade_vars, low_index, high_index, mid, result>>

(* ------------------------------- scorers ------------------------------ *)
\* A scorer's value is the set of outcomes the call can have: the documents
\* are pushed in the iteration order of a HashSet, which is any order, and
\* the stable sort keeps that order among equal scores.

\* the comparator without .reverse()
compare_ascending(x, y) ==
    IF partial_cmp(x.score, y.score) = None THEN Panic
    ELSE Ok(partial_cmp(x.score, y.score)[1])

\* |a, b| a.score.partial_cmp(&b.score).unwrap().reverse()
compare(x, y) ==
    IF partial_cmp(x.score, y.score) = None THEN Panic
    ELSE Ok(CASE partial_cmp(x.score, y.score)[1] = "Less" -> "Greater"
              [] partial_cmp(x.score, y.score)[1] = "Greater" -> "Less"
              [] OTHER -> "Equal")

\* scores.sort_by(compare) of the DocScores pushed: with two or more elements
\* every element is compared at least once
sort_by(scores) ==
    IF \E x, y \in scores : x # y /\ compare(x, y).kind = "panic" THEN {Panic}
    ELSE {Ok(q) : q \in {q \in [1..Cardinality(scores) -> scores] :
                    /\ \A i, j \in 1..Cardinality(scores) : i < j => q[i] # q[j]
                    /\ \A i, j \in 1..Cardinality(scores) :
                            i < j => compare(q[i], q[j]).val # "Greater"}}

\* a filter that also keeps the documents without an occurrence
has_hits_or_none(positions) == Len(positions) >= 0

\* if positions.len() > 0
has_hits(positions) == Len(positions) > 0

\* fn search_phrase(&self, term_ids) -> Vec<DocScore>
search_phrase(term_list) ==
    LET doc_set == IF docs_contain_all(term_list) = None THEN {}
                   ELSE docs_contain_all(term_list)[1]
    IN IF \E doc \in doc_set : all_phrase(doc, term_list).kind = "panic" THEN {Panic}
       ELSE sort_by({[docid |-> doc,
                      score |-> Whole(Len(all_phrase(doc, term_list).val))] :
                     doc \in {doc \in doc_set : has_hits(all_phrase(doc, term_list).val)}})

\* fn rank_vsm(&self, term_ids) -> Vec<DocScore>
rank_vsm(term_list) ==
    IF Len(term_list) = 0 THEN {Ok(<<>>)}
    ELSE LET query_tfidf == get_phrase_tfidf_vector(term_list)
             valid == {doc_id \in docs_contain_any(term_list) : is_valid_doc_id(doc_id)}
         IN IF query_tfidf.kind = "panic" THEN {Panic}
            ELSE IF \E doc_id \in valid : get_doc_tfidf_vector(doc_id).kind = "panic"
            THEN {Panic}
            ELSE sort_by({[docid |-> doc_id,
                           score |-> vec_dot(query_tfidf.val,
                                             get_doc_tfidf_vector(doc_id).val)] :
                          doc_id \in valid})

\* a weight saturation factor of 2.0
k1_two == Num(2000)

\* let k1 = 1.2f32
k1 == Num(1200)

\* let k1plus1 = k1 + 1.0
k1plus1 == FAdd(k1, Whole(1))

\* let b = 0.75f32
b == Num(750)

\* let k1_b_ld_lavg = k1*(1.0-b+b*(ld/lavg))
k1_b_ld_lavg(ld, lavg) ==
    FMul(k1, FAdd(FSub(Whole(1), b), FMul(b, FDiv(Whole(ld), lavg))))

\* the sum over query_term_freq.keys() in rank_bm25 for one document:
\* score += qt * ftd * k1plus1 / (k1_b_ld_lavg + ftd) * idf
RECURSIVE bm25_sum(_, _, _, _)
bm25_sum(qtf, keys, docid, kbl) ==
    IF keys = {} THEN Num(0)
    ELSE Bind(CHOOSE tid \in keys : TRUE,
         LAMBDA tid :
            FAdd(IF get_term_frequency(tid, docid) = None THEN Num(0)
                 ELSE FMul(FDiv(FMul(FMul(Whole(qtf[tid]),
                                          Whole(get_term_frequency(tid, docid)[1])),
                                     k1plus1),
                                FAdd(kbl, Whole(get_term_frequency(tid, docid)[1]))),
                           Log2Ratio(document_count, get_document_frequency(tid)[1])),
                 bm25_sum(qtf, keys \ {tid}, docid, kbl)))

\* fn rank_bm25(&self, term_ids) -> Vec<DocScore>
rank_bm25(term_list) ==
    IF Len(term_list) = 0 THEN {Ok(<<>>)}
    ELSE LET any == docs_contain_any(term_list)
         IN IF \E docid \in any :
                    ~is_valid_doc_id(docid) \/ get_document_length(docid).kind = "panic"
            THEN {Panic}
            ELSE sort_by({[docid |-> docid,
                           score |-> bm25_sum(query_term_freq(term_list),
                                        Elements(term_list), docid,
                                        k1_b_ld_lavg(get_document_length(docid).val,
                                                     get_average_document_length))] :
                          docid \in any})

\* the sum over query_term_freq.keys() in rank_lmd for one document:
\* score += (1f32 + ftd * document_count / lt).log2() * qt
RECURSIVE lmd_sum(_, _, _)
lmd_sum(qtf, keys, docid) ==
    IF keys = {} THEN Num(0)
    ELSE Bind(CHOOSE tid \in keys : TRUE,
         LAMBDA tid :
            FAdd(IF get_term_frequency(tid, docid) = None THEN Num(0)
                 ELSE FMul(Log2Ratio(get_term_occurences_num(tid)
                                        + get_term_frequency(tid, docid)[1] * document_count,
                                     get_term_occurences_num(tid)),
                           Whole(qtf[tid])),
                 lmd_sum(qtf, keys \ {tid}, docid)))

\* (1f32 + ld / lavg).log2() with lavg the quotient average_document_length
log2_one_plus_ld_lavg(ld) ==
    Log2Ratio(average_document_length[1] + ld * average_document_length[2],
              average_document_length[1])

\* fn rank_lmd(&self, terms) -> Vec<DocScore>
rank_lmd(term_list) ==
    IF Len(term_list) = 0 THEN {Ok(<<>>)}
    ELSE LET any == docs_contain_any(term_list)
         IN IF \E docid \in any : get_document_length(docid).kind = "panic" THEN {Panic}
            ELSE sort_by({[docid |-> docid,
                           score |-> FSub(lmd_sum(query_term_freq(term_list),
                                                  Elements(term_list), docid),
                                          FMul(log2_one_plus_ld_lavg(
                                                    get_document_length(docid).val),
                                               Whole(Len(term_list))))] :
                          docid \in any})

RankingAlgorithm == {"Default", "ExactMatch", "VectorSpaceModel", "OkapiBM25", "LMD"}

\* a dispatch that sends Default to rank_vsm
score_default_vsm(term_list, ranking) ==
    IF Len(term_list) = 0 THEN {Ok(<<>>)}
    ELSE CASE ranking = "Default" -> rank_vsm(term_list)
           [] ranking = "ExactMatch" -> search_phrase(term_list)
           [] ranking = "VectorSpaceModel" -> rank_vsm(term_list)
           [] ranking = "OkapiBM25" -> rank_bm25(term_list)
           [] ranking = "LMD" -> rank_lmd(term_list)

\* fn score(&self, terms, ranking) -> Vec<DocScore> of impl Scorer for PositionList
score(term_list, ranking) ==
    IF Len(term_list) = 0 THEN {Ok(<<>>)}
    ELSE CASE ranking = "Default" -> rank_bm25(term_list)
           [] ranking = "ExactMatch" -> search_phrase(term_list)
           [] ranking = "VectorSpaceModel" -> rank_vsm(term_list)
           [] ranking = "OkapiBM25" -> rank_bm25(term_list)
           [] ranking = "LMD" -> rank_lmd(term_list)

\* a caller adds one more document to the index that the scorers run against
AddScoreDocument ==
    /\ pc = "idle"
    /\ document_count < MaxScoreDocs
    /\ \E term_ids \in SeqsUpTo(MaxScoreTokens - total_document_length) :
            add_document(term_ids)
    /\ UNCHANGED <<other_vars, query_vars, facade_vars>>

\* the term-id lists callers hand to a scorer: the ids of the indexed terms
\* and one id that no document has
TermIdLists == UNION {[1..k -> 1..(NumTerms + 1)] : k \in 0..MaxQueryLen}

\* a caller calls search_phrase(term_ids)
CallSearchPhrase ==
    /\ pc = "idle"
    /\ \E term_list \in TermIdLists :
        /\ call' = [op |-> "search_phrase", terms |-> term_list, ranking |-> "none"]
        /\ result' \in search_phrase(term_list)
    /\ pc' = "done"
    /\ UNCHANGED <<other_vars, index_vars, facade_vars, low_index, high_index, mid>>

\* a caller calls rank_vsm(term_ids)
CallRankVsm ==
    /\ pc = "idle"
    /\ \E term_list \in TermIdLists :
        /\ call' = [op |-> "rank_vsm", terms |-> term_list, ranking |-> "none"]
        /\ result' \in rank_vsm(term_list)
    /\ pc' = "done"
    /\ UNCHANGED <<other_vars, index_vars, facade_vars, low_index, high_index, mid>>

\* a caller calls rank_bm25(term_ids)
CallRankBm25 ==
    /\ pc = "idle"
    /\ \E term_list \in TermIdLists :
        /\ call' = [op |-> "rank_bm25", terms |-> term_list, ranking |-> "none"]
        /\ result' \in rank_bm25(term_list)
    /\ pc' = "done"
    /\ UNCHANGED <<other_vars, index_vars, facade_vars, low_index, high_index, mid>>

\* a caller calls rank_lmd(terms)
CallRankLmd ==
    /\ pc = "idle"
    /\ \E term_list \in TermIdLists :
        /\ call' = [op |-> "rank_lmd", terms |-> term_list, ranking |-> "none"]
        /\ result' \in rank_lmd(term_list)
    /\ pc' = "done"
    /\ UNCHANGED <<other_vars, index_vars, facade_vars, low_index, high_index, mid>>

\* a caller calls score(terms, ranking)
CallScore ==
    /\ pc = "idle"
    /\ \E term_list \in TermIdLists, ranking \in RankingAlgorithm :
        /\ call' = [op |-> "score", terms |-> term_list, ranking |-> ranking]
        /\ result' \in score(term_list, ranking)
    /\ pc' = "done"
    /\ UNCHANGED <<other_vars, index_vars, facade_vars, low_index, high_index, mid>>

\* a caller calls docs_contain_all(term_list)
CallDocsContainAll ==
    /\ pc = "idle"
    /\ \E term_list \in TermIdLists :
        /\ call' = [op |-> "docs_contain_all", terms |-> term_list, ranking |-> "none"]
        /\ result' = Ok(docs_contain_all(term_list))
    /\ pc' = "done"
    /\ UNCHANGED <<other_vars, index_vars, facade_vars, low_index, high_index, mid>>

\* a caller calls docs_contain_any(term_list)
CallDocsContainAny ==
    /\ pc = "idle"
    /\ \E term_list \in TermIdLists :
        /\ call' = [op |-> "docs_contain_any", terms |-> term_list, ranking |-> "none"]
        /\ result' = Ok(docs_contain_any(term_list))
    /\ pc' = "done"
    /\ UNCHANGED <<other_vars, index_vars, facade_vars, low_index, high_index, mid>>

(* ------------------- the materialised TF-IDF matrix ------------------- *)
\* index.rs is the PositionList that keeps tf_idf_matrix; its postings and
\* frequency fields are built as those of index/pl.rs.

\* the vector after vec.vec_set(k, weights[k]) for every k of keys
RECURSIVE vec_set_all(_, _, _)
vec_set_all(vec, weights, keys) ==
    IF keys = {} THEN vec
    ELSE Bind(CHOOSE k \in keys : TRUE,
              LAMBDA k : vec_set(vec_set_all(vec, weights, keys \ {k}), k, weights[k]))

\* let tfidf_first_pass = (term_freq.log2() + 1.0) * (doc_count / doc_freq).log2()
tfidf_first_pass(term_freq, doc_freq) ==
    FMul(FAdd(Num(Log2Table[term_freq]), Whole(1)), Log2Ratio(document_count, doc_freq))

\* the term ids of the keys (term_id, doc_id) of term_frequency for one doc_id
matrix_row_terms(doc_id) ==
    {key[1] : key \in {key \in DOMAIN term_frequency : key[2] = doc_id}}

\* fn compute_tf_idf(&mut self) -> Result<(),()>: tf_idf_matrix afterwards.
\* document_count vectors are pushed behind those the matrix has, every key
\* of term_frequency is set in tf_idf_matrix[doc_id], and the vectors at
\* 1 ..= document_count are normalised.
compute_tf_idf(matrix) ==
    Bind(matrix \o [i \in 1..document_count |-> EmptyMap],
         LAMBDA pushed :
            [i \in 1..Len(pushed) |->
                IF i - 1 >= 1 /\ i - 1 <= document_count
                THEN vec_normalize(vec_set_all(pushed[i],
                        [term_id \in matrix_row_terms(i - 1) |->
                            tfidf_first_pass(term_frequency[<<term_id, i - 1>>],
                                             document_frequency[term_id])],
                        matrix_row_terms(i - 1)))
                ELSE pushed[i]])

\* fn rank_cosine(&self, term_ids) -> Vec<DocScore>
rank_cosine(term_list) ==
    IF Len(term_list) = 0 THEN {Ok(<<>>)}
    ELSE LET query_tfidf == get_phrase_tfidf_vector(term_list)
             valid == {doc_id \in docs_contain_any(term_list) : is_valid_doc_id(doc_id)}
         IN IF query_tfidf.kind = "panic" THEN {Panic}
            ELSE IF \E doc_id \in valid : doc_id + 1 > Len(tf_idf_matrix) THEN {Panic}
            ELSE sort_by({[docid |-> doc_id,
                           score |-> vec_dot(query_tfidf.val, tf_idf_matrix[doc_id + 1])] :
                          doc_id \in valid})

\* a caller adds one more document to the index whose matrix is materialised
AddMatrixDocument ==
    /\ pc = "idle"
    /\ document_count < MaxMatrixDocs
    /\ \E term_ids \in SeqsUpTo(MaxMatrixTokens - total_document_length) :
            add_document(term_ids)
    /\ UNCHANGED <<other_vars, query_vars, facade_vars>>

\* a caller calls compute_tf_idf()
ComputeTfIdf ==
    /\ pc = "idle"
    /\ Len(computed) < MaxComputeRuns
    /\ tf_idf_matrix' = compute_tf_idf(tf_idf_matrix)
    /\ computed' = Append(computed, document_count)
    /\ UNCHANGED <<index_vars, query_vars, facade_vars, sv, inverted>>

\* a caller calls rank_cosine(term_ids)
CallRankCosine ==
    /\ pc = "idle"
    /\ \E term_list \in TermIdLists :
        /\ call' = [op |-> "rank_cosine", terms |-> term_list, ranking |-> "none"]
        /\ result' \in rank_cosine(term_list)
    /\ pc' = "done"
    /\ UNCHANGED <<other_vars, index_vars, facade_vars, low_index, high_index, mid>>

\* the documents D1..D5 of test_rank_bm25 as the term ids generate_ids gives them:
\* do 1, you 2, quarrel 3, sir 4, no 5, if 6, i 7, am 8, for 9, serve 10,
\* as 11, good 12, a 13, man 14, better 15, well 16
ScenarioCorpus ==
    << <<1, 2, 3, 4>>,
       <<3, 4, 5, 4>>,
       <<6, 2, 1, 4, 7, 8, 9, 2, 7, 10, 11, 12, 13, 14, 11, 2>>,
       <<5, 15>>,
       <<16, 4>> >>

\* the ids of the scenario's dictionary
ScenarioTerms == UNION {{ScenarioCorpus[d][i] : i \in 1..Len(ScenarioCorpus[d])} :
                        d \in 1..Len(ScenarioCorpus)}

\* the test adds the next document of the scenario
AddScenarioDocument ==
    /\ pc = "idle"
    /\ document_count < Len(ScenarioCorpus)
    /\ add_document(ScenarioCorpus[document_count + 1])
    /\ UNCHANGED <<other_vars, query_vars, facade_vars>>

\* a caller calls rank_bm25(term_ids) with ids of the scenario's dictionary
CallScenarioBm25 ==
    /\ pc = "idle"
    /\ \E term_list \in UNION {[1..k -> ScenarioTerms] : k \in 1..MaxQueryLen} :
        /\ call' = [op |-> "rank_bm25", terms |-> term_list, ranking |-> "none"]
        /\ result' \in rank_bm25(term_list)
    /\ pc' = "done"
    /\ UNCHANGED <<other_vars, index_vars, facade_vars, low_index, high_index, mid>>

(* ------------------------------ Dictionary ---------------------------- *)

\* the words callers hand to the dictionary; the empty string is a &str too
WordList == <<"a", "b", "c", "d", "e">>
Words == {""} \cup {WordList[i] : i \in 1..NumWords}

\* all word lists of length 0..n
WordSeqsUpTo(n) == UNION {[1..k -> Words] : k \in 0..n}

\* self.term_ids.insert(word, self.next_id): the id of a known word is overwritten
entry_insert(d, word) == Put(d.term_ids, word, d.next_id)

\* self.term_ids.entry(word.to_owned()).or_insert(self.next_id): the map afterwards
entry_or_insert(d, word) ==
    IF word \in DOMAIN d.term_ids THEN d.term_ids ELSE Put(d.term_ids, word, d.next_id)

\* fn add(&mut self, word) -> TermId: the dictionary after the call and the id returned
add(d, word) ==
    LET ids == entry_or_insert(d, word)
        term_id == ids[word]
    IN [dict |-> [term_ids |-> ids,
                  terms |-> IF term_id \notin DOMAIN d.terms
                            THEN Put(d.terms, term_id, word) ELSE d.terms,
                  next_id |-> IF d.next_id = term_id THEN d.next_id + 1 ELSE d.next_id],
        ret |-> term_id]

\* fn get(&self, term) -> Option<TermId>
get(d, term) == IF term \in DOMAIN d.term_ids THEN Some(d.term_ids[term]) ELSE None

\* fn get_ids(&self, terms) -> (Vec<TermId>, Vec<String>) over the first n terms
RECURSIVE get_ids(_, _, _)
get_ids(d, ws, n) ==
    IF n = 0 THEN <<(<<>>), (<<>>)>>
    ELSE Bind(get_ids(d, ws, n - 1),
              LAMBDA g : IF get(d, ws[n]) # None
                         THEN <<Append(g[1], get(d, ws[n])[1]), g[2]>>
                         ELSE <<g[1], Append(g[2], ws[n])>>)

\* fn generate_ids(&mut self, terms) -> Vec<TermId> over the first n terms:
\* the dictionary after the call and the ids returned
RECURSIVE generate_ids(_, _, _)
generate_ids(d, ws, n) ==
    IF n = 0 THEN [dict |-> d, ret |-> <<>>]
    ELSE Bind(generate_ids(d, ws, n - 1),
              LAMBDA g : IF get(g.dict, ws[n]) # None
                         THEN [dict |-> g.dict,
                               ret |-> Append(g.ret, get(g.dict, ws[n])[1])]
                         ELSE Bind(add(g.dict, ws[n]),
                                   LAMBDA a : [dict |-> a.dict,
                                               ret |-> Append(g.ret, a.ret)]))

\* fn get_term_by_id(&self, tid) -> String
get_term_by_id(d, tid) == IF tid \in DOMAIN d.terms THEN d.terms[tid] ELSE ""

\* fn get_term_count(&self) -> usize
get_term_count(d) == Cardinality(DOMAIN d.term_ids)

\* the words of ws that `added` does not hold yet, in order, each once
RECURSIVE FirstSeen(_, _)
FirstSeen(seen, ws) ==
    IF ws = <<>> THEN seen
    ELSE FirstSeen(IF \E i \in 1..Len(seen) : seen[i] = ws[1]
                   THEN seen ELSE Append(seen, ws[1]),
                   Tail(ws))

\* a caller calls dict.add(word)
DictAdd ==
    /\ pc = "idle"
    /\ \E word \in Words :
        /\ call' = [op |-> "add", words |-> <<word>>, before |-> dict]
        /\ dict' = add(dict, word).dict
        /\ result' = Ok(add(dict, word).ret)
        /\ added' = FirstSeen(added, <<word>>)
    /\ pc' = "done"
    /\ UNCHANGED <<other_vars, index_vars, low_index, high_index, mid, doc_meta, disk, answers>>

\* a caller calls dict.generate_ids(words)
DictGenerateIds ==
    /\ pc = "idle"
    /\ \E ws \in WordSeqsUpTo(MaxWordListLen) :
        /\ call' = [op |-> "generate_ids", words |-> ws, before |-> dict]
        /\ dict' = generate_ids(dict, ws, Len(ws)).dict
        /\ result' = Ok(generate_ids(dict, ws, Len(ws)).ret)
        /\ added' = FirstSeen(added, ws)
    /\ pc' = "done"
    /\ UNCHANGED <<other_vars, index_vars, low_index, high_index, mid, doc_meta, disk, answers>>

(* -------------------------------- Engine ------------------------------ *)
\* A text is the list of its raw tokens: words, a capitalised word and a
\* punctuation mark.  The analyzer stays with its default language, English.

Err == [kind |-> "err", val |-> <<>>]

RawTokens == {WordList[i] : i \in 1..NumWords} \cup {"A", ","}

Texts == UNION {[1..k -> RawTokens] : k \in 0..MaxTextLen}

Paths == {"1.txt", "2.txt"}

\* fn normalize(&self, text) -> String for Language::English: text.to_lowercase()
normalize(text) == [i \in 1..Len(text) |-> IF text[i] = "A" THEN "a" ELSE text[i]]

\* fn parse_tokens(&self, text) -> Vec<&str> for Language::English:
\* text.unicode_words(), which drops punctuation
parse_tokens(text) == SelectSeq(text, LAMBDA w : w # ",")

\* fn analyze(&mut self, text) -> Vec<TermId> of Analyzer: the dictionary
\* after the call and the ids returned
analyze(d, text) ==
    generate_ids(d, parse_tokens(normalize(text)), Len(parse_tokens(normalize(text))))

\* fn parse(&self, text) -> (Vec<TermId>, Vec<String>) of Analyzer
parse(d, text) ==
    get_ids(d, parse_tokens(normalize(text)), Len(parse_tokens(normalize(text))))

\* a Query::parse that drops the unknown terms whatever the flag says
Query_parse_lenient(phrase, ignore_non_exist_term, d) == parse(d, phrase)[1]

\* fn parse(phrase, ignore_non_exist_term, analyzer) -> Vec<TermId> of Query
Query_parse(phrase, ignore_non_exist_term, d) ==
    IF ~ignore_non_exist_term /\ Len(parse(d, phrase)[2]) > 0 THEN <<>>
    ELSE parse(d, phrase)[1]

\* the loop of exec_query over doc_scores: the paths doc_meta has for them
doc_paths(doc_scores) ==
    LET found == SelectSeq(doc_scores, LAMBDA e : e.docid \in DOMAIN doc_meta)
    IN [i \in 1..Len(found) |-> doc_meta[found[i].docid]]

\* fn exec_query(&self, phrase_str, ranking) -> Vec<&String>: the outcomes the call can have
exec_query(phrase_str, ranking) ==
    {IF o.kind = "panic" THEN Panic ELSE Ok(doc_paths(o.val)) :
        o \in score(Query_parse(phrase_str, ranking # "ExactMatch", dict), ranking)}

\* fn add_document(&mut self, doc) of Engine, as build_index_from calls it for every document
BuildDocument ==
    /\ pc = "idle"
    /\ document_count < MaxEngineDocs
    /\ \E content \in Texts, path \in Paths :
        /\ dict' = analyze(dict, content).dict
        /\ added' = FirstSeen(added, parse_tokens(normalize(content)))
        /\ add_document(analyze(dict, content).ret)
        /\ doc_meta' = Put(doc_meta, next_doc_id_call.ret, path)
    /\ UNCHANGED <<other_vars, query_vars, disk, answers>>

\* a caller calls engine.exec_query(phrase_str, ranking)
ExecQuery ==
    /\ pc = "idle"
    /\ \E phrase_str \in Texts, ranking \in RankingAlgorithm :
        /\ call' = [op |-> "exec_query", phrase |-> phrase_str, ranking |-> ranking,
                    before |-> dict]
        /\ result' \in exec_query(phrase_str, ranking)
    /\ pc' = "done"
    /\ UNCHANGED <<other_vars, index_vars, facade_vars, low_index, high_index, mid>>

\* fn save_to(&mut self, path_str) -> io::Result<()> with every write succeeding
SaveTo ==
    /\ pc = "idle"
    /\ disk' = [index |-> Some(serialize_index),
                analyzer |-> Some([dict |-> dict, added |-> added]),
                docmeta |-> Some(doc_meta)]
    /\ answers' = [q \in Texts \X RankingAlgorithm |-> exec_query(q[1], q[2])]
    /\ call' = [op |-> "save_to"]
    /\ result' = Ok(<<>>)
    /\ pc' = "done"
    /\ UNCHANGED <<other_vars, index_vars, dict, added, doc_meta, low_index, high_index, mid>>

\* the file File::create(filepath) leaves at the final path when write_all
\* stops before the last byte: a prefix of the encoding of obj
Partial(obj) == <<obj, "partial">>

\* where a write_file can fail: File::create returns Err before the file is
\* touched, write_all returns Err after File::create has truncated it
WriteFailures == {"create", "write"}

\* fn write_file(filepath, obj) -> io::Result<()> that fails: the file at
\* filepath afterwards. No temporary file is written and nothing is renamed.
write_file_failed(artifact, obj, failure) ==
    IF failure = "create" THEN artifact ELSE Partial(obj)

\* PositionList::save_to(path) that fails: the index artifact is written to
\* a temporary file and renamed, so the file at the final path is kept
PositionList_save_to_failed(artifact) == artifact

\* fn save_to(&mut self, path_str) -> io::Result<()> with one write failing:
\* `?` returns the error and the artifacts behind the failing one are not written
SaveToInterrupted ==
    /\ pc = "idle"
    /\ \E at \in DOMAIN disk, failure \in WriteFailures :
        /\ disk' =
              [index |-> IF at = "index" THEN PositionList_save_to_failed(disk.index)
                         ELSE Some(serialize_index),
               analyzer |-> IF at = "index" THEN disk.analyzer
                            ELSE IF at = "analyzer"
                            THEN write_file_failed(disk.analyzer,
                                                   [dict |-> dict, added |-> added], failure)
                            ELSE Some([dict |-> dict, added |-> added]),
               docmeta |-> IF at = "docmeta"
                           THEN write_file_failed(disk.docmeta, doc_meta, failure)
                           ELSE disk.docmeta]
        /\ call' = [op |-> "save_to", at |-> at, failure |-> failure, before |-> disk]
    /\ result' = Err
    /\ pc' = "done"
    /\ UNCHANGED <<other_vars, index_vars, dict, added, doc_meta, answers,
                   low_index, high_index, mid>>

\* what reading one artifact can run into
IoOutcomes == {"ok", "open", "read", "decode"}

\* fn read_file(filepath, encoded) -> io::Result<T>: File::open(..).expect(..)
\* and deserialize(..).unwrap() panic, a failed read_to_end is returned as Err
read_file(artifact, io) ==
    IF io = "open" THEN Panic
    ELSE IF io = "read" THEN Err
    ELSE IF io = "decode" THEN Panic
    ELSE Ok(artifact[1])

\* fn load_analyzer(&mut self, path_str): self.analyzer afterwards
load_analyzer(artifact, io) ==
    IF read_file(artifact, io).kind = "panic" THEN Panic
    ELSE IF read_file(artifact, io).kind = "ok" THEN Ok(read_file(artifact, io).val)
    ELSE Ok([dict |-> [term_ids |-> EmptyMap, terms |-> EmptyMap, next_id |-> 1],
             added |-> <<>>])

\* fn load_docmeta(&mut self, path_str): self.doc_meta afterwards
load_docmeta(artifact, io) ==
    IF read_file(artifact, io).kind = "panic" THEN Panic
    ELSE IF read_file(artifact, io).kind = "ok" THEN Ok(read_file(artifact, io).val)
    ELSE Ok(EmptyMap)

\* PositionList::load_from(path): the index read back, its doc_terms rebuilt
PositionList_load_from(bytes) ==
    [deserialize_index(bytes) EXCEPT
        !.doc_terms = rebuild(bytes.postings_lists, EmptyMap)]

\* fn load_from(path) -> Self of Engine; the caller goes on with the engine
\* returned.  The index artifact is read by PositionList::load_from, and the
\* other two run into any of IoOutcomes (an absent file cannot be opened).
LoadFrom ==
    /\ pc = "idle"
    /\ disk.index # None
    /\ \E io_al, io_dm \in IoOutcomes :
        /\ disk.analyzer = None => io_al = "open"
        /\ disk.docmeta = None => io_dm = "open"
        /\ call' = [op |-> "load_from", io |-> <<io_al, io_dm>>]
        /\ IF load_analyzer(disk.analyzer, io_al).kind = "panic"
              \/ load_docmeta(disk.docmeta, io_dm).kind = "panic"
           THEN /\ result' = Panic
                /\ UNCHANGED <<index_vars, dict, added, doc_meta>>
           ELSE /\ result' = Ok(<<>>)
                /\ SetIndex(PositionList_load_from(disk.index[1]))
                /\ dict' = load_analyzer(disk.analyzer, io_al).val.dict
                /\ added' = load_analyzer(disk.analyzer, io_al).val.added
                /\ doc_meta' = load_docmeta(disk.docmeta, io_dm).val
    /\ pc' = "done"
    /\ UNCHANGED <<other_vars, disk, answers, low_index, high_index, mid>>

(* -------------------- the prototype InvertedIndex --------------------- *)
\* src/ircore.rs: dict maps a term to the positions inserted for it, in the
\* order of the insert calls.  A Vec<u32> is a sequence here, the element at
\* the 0-based index i being entry[i + 1].

\* std::process::exit(1): the process ends inside the call
Exit == [kind |-> "exit", val |-> <<>>]

\* fn binary_search(postings_list, low, high, current) -> usize inside next
RECURSIVE InvertedIndex_next_binary_search(_, _, _, _)
InvertedIndex_next_binary_search(postings_list, low, high, current) ==
    IF high - low > 1
    THEN IF postings_list[((high + low) \div 2) + 1] <= current
         THEN InvertedIndex_next_binary_search(postings_list, (high + low) \div 2, high, current)
         ELSE InvertedIndex_next_binary_search(postings_list, low, (high + low) \div 2, current)
    ELSE high

\* fn binary_search(postings_list, low, high, current) -> usize inside prev
RECURSIVE InvertedIndex_prev_binary_search(_, _, _, _)
InvertedIndex_prev_binary_search(postings_list, low, high, current) ==
    IF high - low > 1
    THEN IF postings_list[((high + low) \div 2) + 1] < current
         THEN InvertedIndex_prev_binary_search(postings_list, (high + low) \div 2, high, current)
         ELSE InvertedIndex_prev_binary_search(postings_list, low, (high + low) \div 2, current)
    ELSE low

\* pub fn next(&self, t, pos) -> Option<u32>
InvertedIndex_next(t, pos) ==
    IF t \in DOMAIN inverted
    THEN LET entry == inverted[t]
         IN IF Len(entry) = 0 THEN None
            ELSE IF entry[Len(entry)] <= pos THEN None
            ELSE IF entry[1] > pos THEN Some(entry[1])
            ELSE Some(entry[InvertedIndex_next_binary_search(entry, 0, Len(entry), pos) + 1])
    ELSE None

\* pub fn prev(&self, t, pos) -> Option<u32>
InvertedIndex_prev(t, pos) ==
    IF t \in DOMAIN inverted
    THEN LET entry == inverted[t]
         IN IF entry[1] >= pos THEN None
            ELSE IF entry[Len(entry)] < pos THEN Some(entry[Len(entry)])
            ELSE Some(entry[InvertedIndex_prev_binary_search(entry, 0, Len(entry), pos) + 1])
    ELSE None

\* for t in phrase.iter() of next_phrase, from the i-th term on: the end
\* reached, None when a next(t, end) is None
RECURSIVE InvertedIndex_forward(_, _, _)
InvertedIndex_forward(phrase, i, end) ==
    IF i > Len(phrase) THEN Some(end)
    ELSE IF InvertedIndex_next(phrase[i], end) = None THEN None
    ELSE InvertedIndex_forward(phrase, i + 1, InvertedIndex_next(phrase[i], end)[1])

\* for t in phrase.iter().rev().skip(1) of next_phrase, from the i-th term
\* down: the start reached, None when a prev(t, start) is None
RECURSIVE InvertedIndex_backward(_, _, _)
InvertedIndex_backward(phrase, i, start) ==
    IF i < 1 THEN Some(start)
    ELSE IF InvertedIndex_prev(phrase[i], start) = None THEN None
    ELSE InvertedIndex_backward(phrase, i - 1, InvertedIndex_prev(phrase[i], start)[1])

\* fn next_phrase(&self, phrase, position) -> Option<(u32, u32)>
RECURSIVE InvertedIndex_next_phrase(_, _)
InvertedIndex_next_phrase(phrase, position) ==
    IF Len(phrase) <= 0 THEN Ok(None)
    ELSE Bind(InvertedIndex_forward(phrase, 1, position),
         LAMBDA end :
            IF end = None THEN Ok(None)
            ELSE Bind(InvertedIndex_backward(phrase, Len(phrase) - 1, end[1]),
                 LAMBDA start :
                    IF start = None THEN Exit
                    ELSE IF start[1] < end[1] /\ end[1] - start[1] = Len(phrase) - 1
                    THEN Ok(Some(<<start[1], end[1]>>))
                    ELSE InvertedIndex_next_phrase(phrase, start[1])))

\* the loop of all_phrase from pos on, result holding what was pushed so far
RECURSIVE InvertedIndex_all_phrase_loop(_, _, _)
InvertedIndex_all_phrase_loop(phrase, pos, result_so_far) ==
    Bind(InvertedIndex_next_phrase(phrase, pos),
         LAMBDA r :
            IF r.kind = "exit" THEN Exit
            ELSE IF r.val = None THEN Ok(result_so_far)
            ELSE InvertedIndex_all_phrase_loop(phrase, r.val[1][1],
                                               Append(result_so_far, r.val[1])))

\* pub fn all_phrase(&self, phrase) -> Vec<(u32,u32)>, pos starting at DOC_BEGIN
InvertedIndex_all_phrase(phrase) == InvertedIndex_all_phrase_loop(phrase, 0, <<>>)

\* a caller calls insert(term, position) with a position behind those the
\* term has, as a document is fed to the index token by token
Insert ==
    /\ pc = "idle"
    /\ \E term \in Terms, position \in 1..MaxPosition :
        /\ term \in DOMAIN inverted => inverted[term][Len(inverted[term])] < position
        /\ inverted' = Put(inverted, term,
                           Append(IF term \in DOMAIN inverted THEN inverted[term] ELSE <<>>,
                                  position))
    /\ UNCHANGED <<index_vars, query_vars, facade_vars, sv, tf_idf_matrix, computed>>

\* a caller calls the prototype's all_phrase(phrase)
CallInvertedAllPhrase ==
    /\ pc = "idle"
    /\ \E phrase \in UNION {[1..k -> Terms] : k \in 0..MaxPhraseLen} :
        /\ call' = [op |-> "InvertedIndex_all_phrase", phrase |-> phrase]
        /\ result' = InvertedIndex_all_phrase(phrase)
    /\ pc' = "done"
    /\ UNCHANGED <<other_vars, index_vars, facade_vars, low_index, high_index, mid>>

(* --------------------------- specifications --------------------------- *)

NextIndex == AddDocument

\* the index under add_document alone
SpecIndex == Init /\ [][NextIndex]_vars

Next ==
    \/ AddQueryDocument
    \/ CallNext
    \/ CallPrev
    \/ SearchStep
    \/ SearchReturn
    \/ CallNextPhrase
    \/ CallAllPhrase
    \/ Return

\* the index under add_document and the positional queries
Spec == Init /\ [][Next]_vars

NextEngine ==
    \/ BuildDocument
    \/ ExecQuery
    \/ SaveTo
    \/ LoadFrom
    \/ Return

\* the engine under ingestion, queries, save_to and load_from
SpecEngine == Init /\ [][NextEngine]_vars

NextReload ==
    \/ AddDocument
    \/ Deserialise
    \/ Rebuild
    \/ Return

\* the index under add_document, a round trip through its serialised form, and rebuild
SpecReload == Init /\ [][NextReload]_vars

NextDict ==
    \/ DictAdd
    \/ DictGenerateIds
    \/ Return

\* the dictionary under add and generate_ids
SpecDict == Init /\ [][NextDict]_vars

NextScore ==
    \/ AddScoreDocument
    \/ CallSearchPhrase
    \/ CallRankVsm
    \/ CallRankBm25
    \/ CallRankLmd
    \/ CallScore
    \/ Return

\* the index under add_document and the scorers
SpecScore == Init /\ [][NextScore]_vars

NextVector ==
    \/ VecSet
    \/ VecGet
    \/ Return

\* a SparseVector under vec_set and vec_get
SpecVector == Init /\ [][NextVector]_vars

NextScenario ==
    \/ AddScenarioDocument
    \/ CallScenarioBm25
    \/ Return

\* the five-document scenario of the ranking tests under rank_bm25
SpecScenario == Init /\ [][NextScenario]_vars

NextDocSets ==
    \/ AddScoreDocument
    \/ CallDocsContainAll
    \/ CallDocsContainAny
    \/ Return

\* the index under add_document and the document-set queries
SpecDocSets == Init /\ [][NextDocSets]_vars

NextReloadUse ==
    \/ AddDocument
    \/ Deserialise
    \/ ReturnLoaded
    \/ Rebuild
    \/ Return

\* the index under add_document, deserialisation and rebuild in any order
SpecReloadUse == Init /\ [][NextReloadUse]_vars

NextMatrix ==
    \/ AddMatrixDocument
    \/ ComputeTfIdf
    \/ CallRankCosine
    \/ CallRankVsm
    \/ Return

\* the index under add_document, compute_tf_idf, rank_cosine and rank_vsm
SpecMatrix == Init /\ [][NextMatrix]_vars

NextSave ==
    \/ BuildDocument
    \/ SaveTo
    \/ SaveToInterrupted
    \/ Return

\* the engine under add_document and save_to, whose writes can fail
SpecSave == Init /\ [][NextSave]_vars

NextInverted ==
    \/ Insert
    \/ CallInvertedAllPhrase
    \/ Return

\* the prototype InvertedIndex under insert and all_phrase
SpecInverted == Init /\ [][NextInverted]_vars

(* ------------------------ what the claims say ------------------------- *)

MinOf(S) == CHOOSE x \in S : \A y \in S : x <= y
MaxOf(S) == CHOOSE x \in S : \A y \in S : x >= y

\* the elements of a finite set of integers in increasing order
RECURSIVE Ascending(_)
Ascending(S) == IF S = {} THEN <<>> ELSE <<MinOf(S)>> \o Ascending(S \ {MinOf(S)})

RECURSIVE SumSeq(_)
SumSeq(q) == IF q = <<>> THEN 0 ELSE q[1] + SumSeq(Tail(q))

StrictlyIncreasing(q) == \A i \in 1..(Len(q) - 1) : q[i] < q[i + 1]

\* the documents that have a posting in postings_lists[t]
PostedDocs(t) ==
    IF t \in DOMAIN postings_lists
    THEN {postings_lists[t][i].doc_id : i \in 1..Len(postings_lists[t])} ELSE {}

\* the set of positions stored for term t in document d, empty without a posting
StoredPositions(d, t) ==
    IF t \in DOMAIN postings_lists
    THEN UNION {{postings_lists[t][i].positions[j] :
                    j \in 1..Len(postings_lists[t][i].positions)} :
                i \in {i \in 1..Len(postings_lists[t]) : postings_lists[t][i].doc_id = d}}
    ELSE {}

\* the offsets u at which phrase occurs in the document added as d:
\* phrase[i] is the token at offset u + i - 1 for every i
OccurrenceStarts(d, phrase) ==
    {u \in 1..Len(corpus[d]) :
        /\ u + Len(phrase) - 1 <= Len(corpus[d])
        /\ \A i \in 1..Len(phrase) : corpus[d][u + i - 1] = phrase[i]}

\* all occurrences (u, u+k-1) of a phrase of k >= 1 terms, by increasing u
Occurrences(d, phrase) ==
    LET starts == Ascending(OccurrenceStarts(d, phrase))
    IN [j \in 1..Len(starts) |-> <<starts[j], starts[j] + Len(phrase) - 1>>]

\* C1: all_phrase(d, phrase), for a phrase of k >= 0 terms that all have
\* postings, returns exactly the occurrences (u, u+k-1) of the phrase in d,
\* overlapping ones included, each once, by increasing u; for k = 1 that is
\* (p,p) for every position p of the term, for k = 0 the empty list.
C1_AllPhraseExact ==
    (/\ pc = "done"
     /\ call.op = "all_phrase"
     /\ \A i \in 1..Len(call.phrase) : call.phrase[i] \in DOMAIN postings_lists)
    => result = Ok(IF Len(call.phrase) = 0 THEN <<>>
                   ELSE Occurrences(call.doc, call.phrase))

\* all_phrase returned two occurrences of a phrase of two or more terms that overlap
C1_Witness ==
    /\ pc = "done"
    /\ call.op = "all_phrase"
    /\ Len(call.phrase) >= 2
    /\ result.kind = "ok"
    /\ Len(result.val) >= 2
    /\ result.val[2][1] <= result.val[1][2]

\* C2: next_phrase(d, phrase, s), for a phrase of k >= 2 terms, returns the
\* occurrence (u, u+k-1) with the smallest start u > s, and None exactly when
\* no occurrence starts strictly after s.
C2_NextPhraseSmallest ==
    (pc = "done" /\ call.op = "next_phrase" /\ Len(call.phrase) >= 2)
    => LET after == {u \in OccurrenceStarts(call.doc, call.phrase) : u > call.pos}
       IN result = IF after = {} THEN Ok(None)
                   ELSE Ok(Some(<<MinOf(after), MinOf(after) + Len(call.phrase) - 1>>))

\* next_phrase skipped an occurrence that starts at or before s and a
\* non-contiguous window, and returned a later occurrence
C2_Witness ==
    /\ pc = "done"
    /\ call.op = "next_phrase"
    /\ Len(call.phrase) >= 2
    /\ \E u \in OccurrenceStarts(call.doc, call.phrase) : u <= call.pos
    /\ result.kind = "ok"
    /\ result.val # None
    /\ result.val[1][1] > call.pos + 1

\* C3: next(d, t, pos) returns the smallest stored position x > pos and None
\* exactly when the last position is <= pos or t has no posting for d; inside
\* the binary search P[low] <= pos < P[high]; next(d,t,0) and
\* next(d,t,first-1) are first(d,t).
C3_NextSmallest ==
    call.op = "next" =>
        LET P == StoredPositions(call.doc, call.term)
            after == {x \in P : x > call.pos}
        IN /\ pc = "done" =>
                /\ result = IF after = {} THEN Ok(None) ELSE Ok(Some(MinOf(after)))
                /\ result = Ok(None) <=> (P = {} \/ MaxOf(P) <= call.pos)
                /\ call.pos = 0 => result = first(call.doc, call.term)
                /\ (P # {} /\ call.pos = MinOf(P) - 1)
                        => result = first(call.doc, call.term)
           /\ pc = "search" =>
                /\ At(SearchPositions, low_index) <= call.pos
                /\ call.pos < At(SearchPositions, high_index)

\* next returned a position it found by at least two iterations of the search
C3_Witness ==
    /\ pc = "done"
    /\ call.op = "next"
    /\ Len(mid) >= 2
    /\ result.kind = "ok"
    /\ result.val # None
    /\ result.val[1] > call.pos

\* C4: prev(d, t, pos) returns the largest stored position x < pos and None
\* exactly when the first position is >= pos or t has no posting for d; the
\* binary search called with high = |P| reads no index >= |P| and keeps
\* P[low] < pos; prev(d,t,MAX) and prev(d,t,last+1) are last(d,t).
C4_PrevLargest ==
    call.op = "prev" =>
        LET P == StoredPositions(call.doc, call.term)
            before == {x \in P : x < call.pos}
        IN /\ pc = "done" =>
                /\ result = IF before = {} THEN Ok(None) ELSE Ok(Some(MaxOf(before)))
                /\ result = Ok(None) <=> (P = {} \/ MinOf(P) >= call.pos)
                /\ call.pos = TermOffsetMax => result = last(call.doc, call.term)
                /\ (P # {} /\ call.pos = MaxOf(P) + 1)
                        => result = last(call.doc, call.term)
           /\ \A i \in 1..Len(mid) : mid[i] < Cardinality(P)
           /\ pc = "search" =>
                /\ At(SearchPositions, low_index) < call.pos
                /\ high_index <= Len(SearchPositions)
                /\ high_index < Len(SearchPositions)
                        => call.pos <= At(SearchPositions, high_index)

\* prev returned a position it found by at least two iterations of a search
\* that started with high = |P|
C4_Witness ==
    /\ pc = "done"
    /\ call.op = "prev"
    /\ Len(mid) >= 2
    /\ result.kind = "ok"
    /\ result.val # None
    /\ result.val[1] < call.pos

\* C5: every posting's positions are strictly increasing and non-empty, its
\* term_frequency is the number of positions, term_frequency[(t,d)] is that
\* same number, and term_frequency has the key (t,d) exactly when
\* postings_lists[t] has a posting for d.
C5_PostingCounts ==
    /\ \A t \in DOMAIN postings_lists : \A i \in 1..Len(postings_lists[t]) :
        LET p == postings_lists[t][i]
        IN /\ Len(p.positions) > 0
           /\ StrictlyIncreasing(p.positions)
           /\ p.term_frequency = Len(p.positions)
           /\ <<t, p.doc_id>> \in DOMAIN term_frequency
           /\ term_frequency[<<t, p.doc_id>>] = Len(p.positions)
    /\ \A k \in DOMAIN term_frequency : k[2] \in PostedDocs(k[1])

\* a term occurs three times in one document and also in another document
C5_Witness ==
    \E t \in DOMAIN postings_lists :
        /\ Len(postings_lists[t]) >= 2
        /\ \E i \in 1..Len(postings_lists[t]) : postings_lists[t][i].term_frequency >= 3

\* C6: the k-th call of add_document returns k, whatever the documents hold.
C6_KthCallReturnsK ==
    /\ Len(returned) = Len(corpus)
    /\ \A k \in 1..Len(returned) : returned[k] = k

\* three documents of different contents were added
C6_Witness ==
    /\ Len(returned) = 3
    /\ corpus[1] # corpus[2]
    /\ corpus[2] # corpus[3]
    /\ corpus[3] = <<>>

\* C7: every postings list is sorted by doc_id strictly ascending, each doc_id
\* at most once.
C7_PostingsAscending ==
    \A t \in DOMAIN postings_lists : \A i \in 1..(Len(postings_lists[t]) - 1) :
        postings_lists[t][i].doc_id < postings_lists[t][i + 1].doc_id

\* a term occurs twice in document 1, not in document 2, and again in document 3
C7_Witness ==
    \E t \in DOMAIN postings_lists :
        /\ Len(postings_lists[t]) = 2
        /\ postings_lists[t][1].doc_id = 1
        /\ postings_lists[t][1].term_frequency >= 2
        /\ postings_lists[t][2].doc_id = 3

\* C8: document_frequency[t] is the number of documents d with (t,d) a key of
\* term_frequency, and the number of postings of postings_lists[t].
C8_DocumentFrequency ==
    /\ DOMAIN document_frequency = DOMAIN postings_lists
    /\ \A t \in DOMAIN document_frequency :
        /\ document_frequency[t] =
                Cardinality({k \in DOMAIN term_frequency : k[1] = t})
        /\ document_frequency[t] = Len(postings_lists[t])

\* a term is repeated inside one document and occurs in two documents
C8_Witness ==
    \E t \in DOMAIN document_frequency :
        /\ document_frequency[t] = 2
        /\ \E d \in 1..document_count :
            <<t, d>> \in DOMAIN term_frequency /\ term_frequency[<<t, d>>] >= 2

\* C9: document_length has document_count entries, the entry of document d is
\* its number of tokens, and the entries sum up to total_document_length.
C9_DocumentLengths ==
    /\ Len(document_length) = document_count
    /\ Len(corpus) = document_count
    /\ \A d \in 1..document_count : document_length[d] = Len(corpus[d])
    /\ SumSeq(document_length) = total_document_length

\* three documents were added, one of them with a repeated term, one empty
C9_Witness ==
    /\ document_count = 3
    /\ \E d \in 1..3 : Len(corpus[d]) = 0
    /\ \E d \in 1..3 : Len(corpus[d]) >= 2 /\ corpus[d][1] = corpus[d][2]

TermIds == 0..(NumWords + 2)

\* the parts of C11 about ids: the n-th distinct word added has id n, add of
\* a known word returns its id and changes nothing, ids are neither shared
\* nor reassigned, and get_term_count() = next_id - 1
C11_Ids ==
    /\ \A n \in 1..Len(added) : get(dict, added[n]) = Some(n)
    /\ DOMAIN dict.term_ids = {added[n] : n \in 1..Len(added)}
    /\ (pc = "done" /\ call.op = "add" /\ call.words[1] \in DOMAIN call.before.term_ids)
            => /\ dict = call.before
               /\ result = Ok(call.before.term_ids[call.words[1]])
    /\ \A w1, w2 \in DOMAIN dict.term_ids :
            dict.term_ids[w1] = dict.term_ids[w2] => w1 = w2
    /\ (pc = "done" /\ call.op \in {"add", "generate_ids"})
            => \A w \in DOMAIN call.before.term_ids :
                    get(dict, w) = Some(call.before.term_ids[w])
    /\ get_term_count(dict) = dict.next_id - 1

\* C11 as stated: the parts about ids, and for every word w and id i,
\* get(w) = Some(i) if and only if get_term_by_id(i) = w
C11_InverseForEveryId ==
    /\ C11_Ids
    /\ \A w \in Words, i \in TermIds :
            get(dict, w) = Some(i) <=> get_term_by_id(dict, i) = w

\* C11 amended: the parts about ids, and for every word w and every id i
\* handed out (1 <= i < next_id), get(w) = Some(i) if and only if
\* get_term_by_id(i) = w; for every other id get_term_by_id returns the empty
\* string, whether or not the empty string is a term.
C11_InverseForAssignedIds ==
    /\ C11_Ids
    /\ \A w \in Words, i \in TermIds :
            IF i \in 1..(dict.next_id - 1)
            THEN get(dict, w) = Some(i) <=> get_term_by_id(dict, i) = w
            ELSE get(dict, w) # Some(i) /\ get_term_by_id(dict, i) = ""

\* add was called with a word that had an id already, with the empty string
\* and another word in the dictionary
C11_Witness ==
    /\ pc = "done"
    /\ call.op = "add"
    /\ call.words[1] \in DOMAIN call.before.term_ids
    /\ get_term_count(dict) >= 2
    /\ "" \in DOMAIN dict.term_ids

\* { t : (t,d) is a key of term_frequency }
TermsOfDoc(d) == {k[1] : k \in {k \in DOMAIN term_frequency : k[2] = d}}

\* C13: in every index built by add_document, doc_terms[d] is
\* { t : (t,d) key of term_frequency } for every document d (no entry for a
\* document without terms), and resetting doc_terms to the empty map and
\* calling rebuild() gives doc_terms that same value again and changes no
\* other field.
C13_DocTermsRebuilt ==
    /\ pc = "idle" =>
            /\ DOMAIN doc_terms \subseteq 1..document_count
            /\ \A d \in 1..document_count :
                    (IF d \in DOMAIN doc_terms THEN doc_terms[d] ELSE {}) = TermsOfDoc(d)
    /\ (pc = "done" /\ call.op = "rebuild" /\ call.cleared) =>
            /\ IndexFields = call.before
            /\ \A d \in 1..document_count :
                    (IF d \in DOMAIN doc_terms THEN doc_terms[d] ELSE {}) = TermsOfDoc(d)

\* rebuild() ran on an emptied doc_terms of an index with a document without
\* terms and two documents that share one term and differ in another
C13_Witness ==
    /\ pc = "done"
    /\ call.op = "rebuild"
    /\ call.cleared
    /\ \E d \in 1..document_count : d \notin DOMAIN doc_terms
    /\ \E d1, d2 \in DOMAIN doc_terms :
            /\ d1 < d2
            /\ doc_terms[d1] \cap doc_terms[d2] # {}
            /\ doc_terms[d1] # doc_terms[d2]

KnownTokens(phrase_str) ==
    SelectSeq(parse_tokens(normalize(phrase_str)), LAMBDA t : t \in DOMAIN dict.term_ids)

KnownIds(phrase_str) ==
    [i \in 1..Len(KnownTokens(phrase_str)) |-> dict.term_ids[KnownTokens(phrase_str)[i]]]

\* C14: exec_query under ExactMatch answers nothing when a token of the query
\* is not in the dictionary; under a ranked algorithm it answers what scoring
\* the known tokens alone answers; the dictionary is as before the query.
C14_UnknownTermPolicy ==
    (pc = "done" /\ call.op = "exec_query")
    => /\ dict = call.before
       /\ (call.ranking = "ExactMatch"
            /\ Len(KnownTokens(call.phrase)) < Len(parse_tokens(normalize(call.phrase))))
          => result = Ok(<<>>)
       /\ call.ranking # "ExactMatch"
          => \E o \in score(KnownIds(call.phrase), call.ranking) :
                result = (IF o.kind = "panic" THEN Panic ELSE Ok(doc_paths(o.val)))

\* an ExactMatch query with an unknown token was answered whose known tokens
\* form a phrase that occurs in a document
C14_Witness ==
    /\ pc = "done"
    /\ call.op = "exec_query"
    /\ call.ranking = "ExactMatch"
    /\ Len(KnownTokens(call.phrase)) < Len(parse_tokens(normalize(call.phrase)))
    /\ \E o \in search_phrase(KnownIds(call.phrase)) : o.kind = "ok" /\ Len(o.val) > 0
    /\ result = Ok(<<>>)

\* the documents the result of a scorer has an entry for
ScoredDocs == {result.val[i].docid : i \in 1..Len(result.val)}

\* no document has two entries in the result of a scorer
NoDocTwice == \A i, j \in 1..Len(result.val) : i < j => result.val[i].docid # result.val[j].docid

\* the scores of the result of a scorer never go up along the list
NonIncreasing ==
    \A i, j \in 1..Len(result.val) :
        i < j => /\ result.val[i].score.kind = "num"
                 /\ result.val[j].score.kind = "num"
                 /\ result.val[i].score.v >= result.val[j].score.v

\* the documents added that have at least one of the terms of a list
ContainAny(term_list) ==
    {d \in 1..Len(corpus) : \E i \in 1..Len(corpus[d]), j \in 1..Len(term_list) :
                                corpus[d][i] = term_list[j]}

\* C16: search_phrase(phi), for a phrase of k >= 1 term ids, returns one entry
\* for every document in which phi occurs and for no other, each document
\* once, scored with the number of occurrences of phi in it, by
\* non-increasing count.
C16_SearchPhraseCounts ==
    (pc = "done" /\ call.op = "search_phrase" /\ Len(call.terms) >= 1)
    => /\ result.kind = "ok"
       /\ ScoredDocs = {d \in 1..Len(corpus) : OccurrenceStarts(d, call.terms) # {}}
       /\ NoDocTwice
       /\ \A i \in 1..Len(result.val) :
            result.val[i].score =
                Whole(Cardinality(OccurrenceStarts(result.val[i].docid, call.terms)))
       /\ NonIncreasing

\* search_phrase answered a phrase of two terms that occurs twice in one
\* document and once in another
C16_Witness ==
    /\ pc = "done"
    /\ call.op = "search_phrase"
    /\ Len(call.terms) = 2
    /\ result.kind = "ok"
    /\ Len(result.val) = 2
    /\ result.val[1].score = Whole(2)
    /\ result.val[2].score = Whole(1)

\* C15: rank_bm25, rank_lmd and rank_vsm, for a non-empty list of term ids,
\* return one entry for every document that has at least one of the terms and
\* for no other, each document once, by non-increasing score.
C15_RankedExactlyContainAny ==
    (pc = "done" /\ call.op \in {"rank_bm25", "rank_lmd", "rank_vsm"} /\ Len(call.terms) >= 1)
    => /\ result.kind = "ok"
       /\ ScoredDocs = ContainAny(call.terms)
       /\ NoDocTwice
       /\ NonIncreasing

\* C17: rank_vsm, for a non-empty query of indexed term ids, does not panic
\* and gives no document a NaN score, also when a term occurs in every
\* document and when there is one document only.
C17_VsmNeverNaN ==
    (/\ pc = "done"
     /\ call.op = "rank_vsm"
     /\ Len(call.terms) >= 1
     /\ \A i \in 1..Len(call.terms) : call.terms[i] \in DOMAIN document_frequency)
    => /\ result.kind = "ok"
       /\ \A i \in 1..Len(result.val) : result.val[i].score.kind # "nan"

\* C18: on an index without documents every scorer returns an empty list for
\* every term-id list, and on every index every scorer returns an empty list
\* for the empty term-id list; none of them panics.
C18_EmptyIndexOrEmptyList ==
    (/\ pc = "done"
     /\ call.op \in {"search_phrase", "rank_vsm", "rank_bm25", "rank_lmd", "score"}
     /\ (document_count = 0 \/ Len(call.terms) = 0))
    => result = Ok(<<>>)

\* C19: is_valid_doc_id(d) is true exactly for 1 <= d <= document_count, so
\* get_document_length succeeds for every id it accepts.
C19_ValidExactlyOneToCount ==
    \A d \in 0..(document_count + 2) :
        /\ is_valid_doc_id(d) <=> (1 <= d /\ d <= document_count)
        /\ is_valid_doc_id(d) => get_document_length(d).kind = "ok"

\* C20: when reading an artifact fails during load_from, the caller gets an
\* error value: no panic, and no engine with a new analyzer or an empty
\* doc-meta map in place of the artifact.
C20_LoadFailuresAreErrors ==
    (pc = "done" /\ call.op = "load_from" /\ call.io # <<"ok", "ok">>)
    => result.kind = "err"

\* C21: add_document of an empty term-id list returns the next document id,
\* adds one to document_count, appends 0 to document_length, keeps
\* total_document_length, sets average_document_length to the total over the
\* new count, and keeps postings_lists, document_frequency, term_frequency
\* and doc_terms.
C21_EmptyDocumentAccepted ==
    [][(corpus' = Append(corpus, <<>>))
       => /\ returned' = Append(returned, Len(corpus) + 1)
          /\ document_count' = document_count + 1
          /\ document_length' = Append(document_length, 0)
          /\ total_document_length' = total_document_length
          /\ average_document_length' = <<total_document_length, document_count + 1>>
          /\ UNCHANGED <<postings_lists, document_frequency, term_frequency, doc_terms>>]_vars

\* an empty document was added after a document with tokens
C21_Witness ==
    /\ Len(corpus) >= 2
    /\ corpus[1] # <<>>
    /\ corpus[Len(corpus)] = <<>>
    /\ document_length[Len(corpus)] = 0
    /\ document_count = Len(corpus)

\* C22: after vec_set(id, v), vec_get(id) returns v, also when the vector had
\* an entry for id before, and no other entry has changed; vec_get of an id
\* that was never set returns 0.0.
C22_SetThenGet ==
    /\ (pc = "done" /\ call.op = "vec_set")
       => /\ vec_get(sv, call.id) = call.value
          /\ \A id \in (1..NumVecIds) \ {call.id} :
                /\ id \in DOMAIN sv <=> id \in DOMAIN call.before
                /\ id \in DOMAIN sv => sv[id] = call.before[id]
    /\ (pc = "done" /\ call.op = "vec_get" /\ call.id \notin DOMAIN sv)
       => result = Ok(Num(0))

\* |x - y| of two f32 values that are numbers, in thousandths
Distance(x, y) == IF x.v >= y.v THEN x.v - y.v ELSE y.v - x.v

\* C23: on the five documents of the scenario rank_bm25 of the ids of
\* "quarrel sir" returns the documents 2, 1, 5, 3 in that order with scores
\* within 0.005 of 1.98, 1.86, 0.44, 0.18, and no entry for document 4.
C23_ScenarioBm25 ==
    (pc = "done" /\ call.op = "rank_bm25" /\ call.terms = <<3, 4>>
     /\ corpus = ScenarioCorpus)
    => /\ result.kind = "ok"
       /\ [i \in 1..Len(result.val) |-> result.val[i].docid] = <<2, 1, 5, 3>>
       /\ \A i \in 1..Len(result.val) :
            /\ result.val[i].score.kind = "num"
            /\ Distance(result.val[i].score,
                        <<Num(1980), Num(1860), Num(440), Num(180)>>[i]) <= 5

\* rank_bm25 answered "quarrel sir" on the five documents of the scenario
C23_Witness ==
    /\ pc = "done"
    /\ call.op = "rank_bm25"
    /\ call.terms = <<3, 4>>
    /\ corpus = ScenarioCorpus
    /\ document_count = 5
    /\ result.kind = "ok"
    /\ Len(result.val) = 4

\* the end the forward walk of the finished next_phrase call reached
CallForward == ForwardWalk(call.doc, call.phrase, Len(call.phrase), call.pos)

\* the start its backward walk reached from that end
CallBackward ==
    BackwardWalk(call.doc, call.phrase, Len(call.phrase) - 1, CallForward.val[1])

\* C24: in next_phrase for a phrase of k >= 2 terms, when the forward walk
\* succeeds every prev of the backward walk returns Some, so assert!(false)
\* is not reached, and the start found is greater than the position the call
\* started from: a recursive call starts further right and the call ends.
C24_BackwardWalkAdvances ==
    (/\ pc = "done"
     /\ call.op = "next_phrase"
     /\ Len(call.phrase) >= 2
     /\ CallForward.kind = "ok"
     /\ CallForward.val # None)
    => /\ CallBackward.kind = "ok"
       /\ CallBackward.val[1] > call.pos
       /\ CallBackward.val[1] <= CallForward.val[1]
       /\ result.kind = "ok"

\* a next_phrase call of a three-term phrase went forward and back, found
\* the terms apart, started again from the start found and then found the phrase
C24_Witness ==
    /\ pc = "done"
    /\ call.op = "next_phrase"
    /\ Len(call.phrase) = 3
    /\ CallForward.kind = "ok"
    /\ CallForward.val # None
    /\ CallBackward.kind = "ok"
    /\ ~IsContiguous(CallBackward.val[1], CallForward.val[1], Len(call.phrase))
    /\ result.kind = "ok"
    /\ result.val # None

\* C25: docs_contain_all of a non-empty term list, None read as the empty
\* set, is the set of the documents that contain every term of the list; it
\* is empty when a term of the list has no postings.
C25_ContainAllIsIntersection ==
    (pc = "done" /\ call.op = "docs_contain_all" /\ Len(call.terms) >= 1)
    => (IF result.val = None THEN {} ELSE result.val[1])
       = {d \in 1..Len(corpus) :
            \A j \in 1..Len(call.terms) :
                \E i \in 1..Len(corpus[d]) : corpus[d][i] = call.terms[j]}

\* C26: right after every rebuild() call, whatever add_document calls and
\* deserialisations came before, doc_terms[d] is the set of the terms t with
\* a key (t, d) in term_frequency, for every document d.
C26_RebuildAlwaysCompletes ==
    (pc = "done" /\ call.op = "rebuild")
    => \A d \in 1..document_count :
            (IF d \in DOMAIN doc_terms THEN doc_terms[d] ELSE {}) = TermsOfDoc(d)

\* compute_tf_idf has run, no document was added since, and documents were
\* added between any two runs
MatrixUpToDate ==
    /\ computed # <<>>
    /\ computed[Len(computed)] = document_count
    /\ \A run \in 1..(Len(computed) - 1) : computed[run] < computed[run + 1]

\* C27: once compute_tf_idf has run after the last addition, also when it had
\* run before earlier additions, tf_idf_matrix holds one vector per document
\* (behind the unused vector at index 0), the vector of every document is
\* the one get_doc_tfidf_vector computes, and rank_cosine returns what
\* rank_vsm can return.
C27_MatrixAgreesWithLazy ==
    /\ MatrixUpToDate
       => /\ Len(tf_idf_matrix) = document_count + 1
          /\ \A d \in 1..document_count :
                d + 1 <= Len(tf_idf_matrix)
                /\ Ok(tf_idf_matrix[d + 1]) = get_doc_tfidf_vector(d)
    /\ (MatrixUpToDate /\ pc = "done" /\ call.op = "rank_cosine")
       => result \in rank_vsm(call.terms)

\* C28: when a write of save_to fails, every artifact at its final path is
\* complete: it holds what it held before the call or what the call writes.
C28_NoPartialArtifact ==
    (pc = "done" /\ call.op = "save_to" /\ result = Err)
    => /\ Len(disk.index) <= 1
       /\ disk.index \in {call.before.index, Some(serialize_index)}
       /\ Len(disk.analyzer) <= 1
       /\ disk.analyzer \in {call.before.analyzer, Some([dict |-> dict, added |-> added])}
       /\ Len(disk.docmeta) <= 1
       /\ disk.docmeta \in {call.before.docmeta, Some(doc_meta)}

\* the offsets of document d at which its token list holds term t
OffsetsOf(d, t) == {o \in 1..Len(corpus[d]) : corpus[d][o] = t}

\* C29: for every document d added with token list T, the offsets stored
\* for a term t in d are exactly the offsets o of 1..|T| with T[o] = t, each
\* once and in one posting; no stored position is 0, exceeds
\* document_length of d or is u32::MAX.  Holding in every state, relative to
\* the token lists as they were added, it says that later add_document
\* calls leave the positions of earlier documents alone.
C29_PositionsLossless ==
    /\ \A d \in 1..Len(corpus) : \A t \in Terms :
            StoredPositions(d, t) = OffsetsOf(d, t)
    /\ \A t \in DOMAIN postings_lists : \A i \in 1..Len(postings_lists[t]) :
            /\ postings_lists[t][i].doc_id \in 1..Len(corpus)
            /\ postings_lists[t][i].positions =
                    Ascending(OffsetsOf(postings_lists[t][i].doc_id, t))
            /\ \A j \in 1..Len(postings_lists[t][i].positions) :
                    /\ postings_lists[t][i].positions[j] # 0
                    /\ postings_lists[t][i].positions[j]
                            <= document_length[postings_lists[t][i].doc_id]
                    /\ postings_lists[t][i].positions[j] # TermOffsetMax

\* two terms share document 1, one of them twice, and a later document
\* holds that term again behind the other one
C29_Witness ==
    /\ Len(corpus) >= 2
    /\ \E t \in Terms, u \in Terms :
        /\ t # u
        /\ Cardinality(StoredPositions(1, t)) >= 2
        /\ StoredPositions(1, u) # {}
        /\ 1 \in StoredPositions(Len(corpus), u)
        /\ 2 \in StoredPositions(Len(corpus), t)

\* the positions inserted for term t, in the order of the insert calls
InsertedPositions(t) == IF t \in DOMAIN inverted THEN inverted[t] ELSE <<>>

\* C30: with the positions of every term inserted in strictly increasing
\* order, the prototype's all_phrase of a one-term phrase [t] returns (p,p)
\* for every position p of t, in increasing order, and all_phrase of the
\* empty phrase returns the empty list.
C30_PrototypeShortPhrases ==
    (/\ pc = "done"
     /\ call.op = "InvertedIndex_all_phrase"
     /\ Len(call.phrase) <= 1
     /\ \A t \in DOMAIN inverted : StrictlyIncreasing(inverted[t]))
    => result = Ok(IF Len(call.phrase) = 0 THEN <<>>
                   ELSE [j \in 1..Len(InsertedPositions(call.phrase[1])) |->
                            <<InsertedPositions(call.phrase[1])[j],
                              InsertedPositions(call.phrase[1])[j]>>])

=============================================================================
